---- MODULE Spec2Model ----
(***************************************************************************)
(* Dataflow analysis and graph rewriting over a MIR control-flow graph:    *)
(* librustc/mir/transform/dataflow.rs and lattice.rs.                      *)
(*                                                                         *)
(* Block identifiers and vector indices are zero-based as in the source;   *)
(* vectors are TLA+ sequences, so index i of the source is element i+1.    *)
(***************************************************************************)
EXTENDS Integers, Sequences, FiniteSets, TLC

VARIABLES
    mir,              \* Mir: the vector of basic blocks (statements, terminator)
    facts,            \* Facts<F>: the vector of lattice values, one per block
    queue,            \* the BitVector of pending blocks
    direction,        \* Direction::Forward / Direction::Backward
    pc,               \* position in fixpoint and in the per-block callback
    block,            \* the block popped by the loop (bb of the callback)
    fact,             \* the callback's local fact
    statements,       \* the callback's swapped-out statement vector
    statement_index,  \* analyse_rewrite_statements' cursor
    new_facts,        \* what the callback returned to fixpoint
    rewrite,          \* the rewriter the driver passed in
    transfer,         \* the Transfer implementation the driver chose
    debug_assertions, \* whether the build keeps debug_assert!
    fs,               \* the fact store the driver supplied
    panic,            \* the message of the panic that ended the run, or "none"
    visited,          \* history: the blocks the loop has popped so far
    entered,          \* history: the Mir as it was when the block was popped
    order,            \* history: the rewrites and transfers of the visit
    lattice,          \* the Lattice implementation in use
    receiver,         \* a lattice value joined into (the self of join)
    argument,         \* the value last joined into it (the other of join)
    previous,         \* the receiver before that join
    produced,         \* history: the facts each block's last visit returned
    outcome,          \* what a rewriter combined in either grouping returned
    changed           \* what that join returned

vars == <<mir, facts, queue, direction, pc, block, fact, statements,
          statement_index, new_facts, rewrite, transfer, debug_assertions,
          fs, panic, visited, entered, order, produced, outcome, lattice,
          receiver, argument, previous, changed>>

-----------------------------------------------------------------------------
(* Bounds *)

\* Height of the base lattice the analysed facts are built from.
MaxLevel == 2

-----------------------------------------------------------------------------
(* Zero-based vectors *)

At(v, i) == v[i + 1]

SetAt(v, i, x) == [v EXCEPT ![i + 1] = x]

\* a reverse that leaves the vector as it is
ReverseNot(s) == s

Reverse(s) == [i \in 1..Len(s) |-> s[Len(s) + 1 - i]]

START_BLOCK == 0

-----------------------------------------------------------------------------
(* The lattice of facts: HashMap<Var, Level>, Level a chain 0..MaxLevel    *)
(* joined by maximum.  A join yields the receiver's new value and the      *)
(* change flag.                                                            *)

Variables == {"c", "x", "y"}

Level == 0..MaxLevel

LevelBottom == 0

\* a join that reports a change when nothing grew
LevelJoinGeq(this, other) ==
    [val |-> IF other > this THEN other ELSE this, changed |-> other >= this]

\* a join that takes the lower level
LevelJoinMin(this, other) ==
    [val |-> IF other < this THEN other ELSE this, changed |-> other < this]

LevelJoin(this, other) ==
    [val |-> IF other > this THEN other ELSE this, changed |-> other > this]

HashMapBottom == <<>>

\* for (key, val) in other.iter() { match self.entry(key.clone()) { .. } }:
\* a key the receiver lacks is inserted (changed = true), a key it has is
\* joined (changed |= join)
HashMapJoinWith(this, other, keys) ==
    [val |-> [k \in DOMAIN this \cup keys |->
                 IF k \notin DOMAIN this THEN other[k]
                 ELSE IF k \in keys THEN LevelJoin(this[k], other[k]).val
                 ELSE this[k]],
     changed |-> \E k \in keys :
                    k \notin DOMAIN this \/ LevelJoin(this[k], other[k]).changed]

\* a join whose Entry::Vacant arm inserts nothing
HashMapJoinOccupiedOnly(this, other) ==
    HashMapJoinWith(this, other, DOMAIN other \cap DOMAIN this)

\* a join whose Entry::Occupied arm overwrites the value
HashMapJoinOverwrite(this, other) ==
    [val |-> [k \in DOMAIN this \cup DOMAIN other |->
                 IF k \in DOMAIN other THEN other[k] ELSE this[k]],
     changed |-> \E k \in DOMAIN other :
                    k \notin DOMAIN this \/ other[k] # this[k]]

\* a join whose Entry::Vacant arm inserts without setting changed
HashMapJoinVacantSilent(this, other) ==
    [val |-> HashMapJoinWith(this, other, DOMAIN other).val,
     changed |-> \E k \in DOMAIN other \cap DOMAIN this :
                    LevelJoin(this[k], other[k]).changed]

HashMapJoin(this, other) == HashMapJoinWith(this, other, DOMAIN other)

Bottom == HashMapBottom

Join(this, other) == HashMapJoin(this, other)

Insert(f, k, v) == [x \in DOMAIN f \cup {k} |-> IF x = k THEN v ELSE f[x]]

Get(f, k) == IF k \in DOMAIN f THEN f[k] ELSE LevelBottom

-----------------------------------------------------------------------------
(* The Lattice implementations.  A type is [ctor] or [ctor, arg], arg being *)
(* the type parameter; <T as Lattice>::bottom and ::join dispatch on it.    *)
(* WTop<T> and WBottom<T> values are [tag |-> "Top"], [tag |-> "Bottom"]     *)
(* and [tag |-> "Value", v |-> t].                                          *)

LevelType == [ctor |-> "Level"]

\* a chain that implements bottom() as a panic
NoBottomType == [ctor |-> "NoBottom"]

HashMapType == [ctor |-> "HashMap"]

WTop(T) == [ctor |-> "WTop", arg |-> T]

WBottom(T) == [ctor |-> "WBottom", arg |-> T]

\* type WTopBottom<T> = WTop<WBottom<T>>
WTopBottom(T) == WTop(WBottom(T))

Top == [tag |-> "Top"]

WBottomBottom == [tag |-> "Bottom"]

Value(t) == [tag |-> "Value", v |-> t]

\* what a bottom() implemented as bug!() stands for
Bug == -1

RECURSIVE lattice_bottom(_)
RECURSIVE lattice_join(_, _, _)

\* a bottom() that is the top point
WTop_bottomTop(T) == Top

\* <WTop<T> as Lattice>::bottom
WTop_bottom(T) == Value(lattice_bottom(T))

\* a join in which Top reports a change
WTop_joinTopChanges(T, this, other) ==
    IF this.tag = "Value" /\ other.tag = "Value"
    THEN LET j == lattice_join(T, this.v, other.v)
         IN  [val |-> Value(j.val), changed |-> j.changed]
    ELSE [val |-> Top, changed |-> TRUE]

\* a join in which Top gives way to a value
WTop_joinValueWins(T, this, other) ==
    IF this.tag = "Value" /\ other.tag = "Value"
    THEN LET j == lattice_join(T, this.v, other.v)
         IN  [val |-> Value(j.val), changed |-> j.changed]
    ELSE IF this.tag = "Top" THEN [val |-> other, changed |-> other.tag # "Top"]
    ELSE [val |-> Top, changed |-> TRUE]

\* <WTop<T> as Lattice>::join
WTop_join(T, this, other) ==
    IF this.tag = "Value" /\ other.tag = "Value"
    THEN LET j == lattice_join(T, this.v, other.v)
         IN  [val |-> Value(j.val), changed |-> j.changed]
    ELSE IF this.tag = "Top" THEN [val |-> this, changed |-> FALSE]
    ELSE [val |-> Top, changed |-> TRUE]

\* <WBottom<T> as Lattice>::bottom
WBottom_bottom(T) == WBottomBottom

\* a join that adopts the other value whenever one side is not wrapped
WBottom_joinAdopt(T, this, other) ==
    IF this.tag = "Value" /\ other.tag = "Value"
    THEN LET j == lattice_join(T, this.v, other.v)
         IN  [val |-> Value(j.val), changed |-> j.changed]
    ELSE [val |-> other, changed |-> TRUE]

\* a join that reports a change when the other side is the bottom point
WBottom_joinBottomChanges(T, this, other) ==
    IF this.tag = "Value" /\ other.tag = "Value"
    THEN LET j == lattice_join(T, this.v, other.v)
         IN  [val |-> Value(j.val), changed |-> j.changed]
    ELSE IF other.tag = "Bottom" THEN [val |-> this, changed |-> TRUE]
    ELSE [val |-> other, changed |-> TRUE]

\* <WBottom<T> as Lattice>::join
WBottom_join(T, this, other) ==
    IF this.tag = "Value" /\ other.tag = "Value"
    THEN LET j == lattice_join(T, this.v, other.v)
         IN  [val |-> Value(j.val), changed |-> j.changed]
    ELSE IF other.tag = "Bottom" THEN [val |-> this, changed |-> FALSE]
    ELSE [val |-> other, changed |-> TRUE]

\* <T as Lattice>::bottom()
lattice_bottom(T) ==
    IF T.ctor = "Level" THEN LevelBottom
    ELSE IF T.ctor = "NoBottom" THEN Bug
    ELSE IF T.ctor = "HashMap" THEN HashMapBottom
    ELSE IF T.ctor = "WTop" THEN WTop_bottom(T.arg)
    ELSE WBottom_bottom(T.arg)

\* <T as Lattice>::join(this, other)
lattice_join(T, this, other) ==
    IF T.ctor \in {"Level", "NoBottom"} THEN LevelJoin(this, other)
    ELSE IF T.ctor = "HashMap" THEN HashMapJoin(this, other)
    ELSE IF T.ctor = "WTop" THEN WTop_join(T.arg, this, other)
    ELSE WBottom_join(T.arg, this, other)

\* the keys of the maps joined on their own
Keys == {"x", "y"}

\* the values of a type
RECURSIVE Values(_)
Values(T) ==
    IF T.ctor \in {"Level", "NoBottom"} THEN Level
    ELSE IF T.ctor = "HashMap"
    THEN UNION {[K -> Level] : K \in SUBSET Keys}
    ELSE IF T.ctor = "WTop" THEN {Top} \cup {Value(t) : t \in Values(T.arg)}
    ELSE {WBottomBottom} \cup {Value(t) : t \in Values(T.arg)}

\* the types joined on their own
Lattices ==
    {WTop(LevelType), WBottom(NoBottomType), WTopBottom(LevelType), HashMapType}

-----------------------------------------------------------------------------
(* Statements and terminators *)

Stmt(op, var, val) == [op |-> op, var |-> var, val |-> val]

NoTerm == [kind |-> "None", succs |-> <<>>, var |-> "-"]

Goto(t) == [kind |-> "Goto", succs |-> <<t>>, var |-> "-"]

If(v, t, e) == [kind |-> "If", succs |-> <<t, e>>, var |-> v]

Call(t) == [kind |-> "Call", succs |-> <<t>>, var |-> "-"]

Return == [kind |-> "Return", succs |-> <<>>, var |-> "-"]

BasicBlockData(stmts, term) == [statements |-> stmts, terminator |-> term]

is_none(t) == t.kind = "None"

successors(t) == t.succs

\* mir.predecessors_for(block): the blocks whose terminator names block
predecessors_for(m, b) ==
    {p \in 0..(Len(m) - 1) :
        \E i \in 1..Len(At(m, p).terminator.succs) :
            At(m, p).terminator.succs[i] = b}

-----------------------------------------------------------------------------
(* Transfer: the analysis the driver instantiates the engine with.         *)
(* "set" assigns a level to a variable, "inc" raises it by one (saturating)*)

Min(a, b) == IF a < b THEN a ELSE b

\* T::stmt(&statement, fact) -> fact
TransferStmt(s, f) ==
    IF s.op = "set" THEN Insert(f, s.var, s.val)
    ELSE Insert(f, s.var, Min(Get(f, s.var) + 1, MaxLevel))

\* T::term(&terminator, fact) -> Vec<fact>.  "PerEdge" is a forward transfer
\* (one fact per successor, an If learning which way it went); "Single" is a
\* backward transfer (one fact whatever the terminator).
TransferTerm(kind, t, f) ==
    IF kind = "PerEdge"
    THEN [i \in 1..Len(successors(t)) |->
             IF t.kind = "If" THEN Insert(f, t.var, i) ELSE f]
    ELSE <<IF t.kind = "If" THEN Insert(f, t.var, MaxLevel) ELSE f>>

-----------------------------------------------------------------------------
(* Rewrite: the rewriters the driver may pass.  A rewriter is a pair of    *)
(* rules; the statement rule applies to statements on variable "y", the    *)
(* terminator rule "Terminator" to If and the Graph rules to Call.         *)
(* A Graph outcome names blocks the rewriter has just pushed onto the Mir. *)

NoChange == [kind |-> "None"]

\* the statements of a replacement graph's entry block
EntryStmts == <<Stmt("inc", "x", 0), Stmt("set", "c", 1)>>

\* the statements a replacement graph's exit block already holds
ExitStmts == <<Stmt("set", "c", 2)>>

Push(m, b) == Append(m, b)

\* R::stmt(&self, &statement, &fact, &mut mir) -> StatementChange, and the Mir
\* it leaves
RewriteStmt(r, s, f, m) ==
    LET n == Len(m) IN
    IF s.var # "y" \/ r.stmt = "None" THEN [change |-> NoChange, mir |-> m]
    ELSE IF r.stmt = "Remove" THEN [change |-> [kind |-> "Remove"], mir |-> m]
    ELSE IF r.stmt = "RemoveSet"
    THEN \* only an assignment of a constant is removed
         [change |-> IF s.op = "set" THEN [kind |-> "Remove"] ELSE NoChange,
          mir |-> m]
    ELSE IF r.stmt = "Statement"
    THEN \* constant folding: y += 1 becomes y = k + 1 when the fact has y = k
         [change |-> IF s.op = "inc"
                     THEN [kind |-> "Statement",
                           stmt |-> Stmt("set", "y",
                                         Min(Get(f, "y") + 1, MaxLevel))]
                     ELSE NoChange,
          mir |-> m]
    ELSE IF r.stmt = "Graph"
    THEN [change |-> [kind |-> "Graph", entry |-> n, exit |-> n + 1],
          mir |-> Push(Push(m, BasicBlockData(EntryStmts, Goto(n + 1))),
                       BasicBlockData(ExitStmts, NoTerm))]
    ELSE IF r.stmt = "GraphOpen"
    THEN \* the entry block holds one statement and does not lead anywhere
         [change |-> [kind |-> "Graph", entry |-> n, exit |-> n + 1],
          mir |-> Push(Push(m, BasicBlockData(<<Stmt("set", "c", 1)>>, NoTerm)),
                       BasicBlockData(<<>>, NoTerm))]
    ELSE IF r.stmt = "GraphEmpty"
    THEN [change |-> [kind |-> "Graph", entry |-> n, exit |-> n + 1],
          mir |-> Push(Push(m, BasicBlockData(<<>>, Goto(n + 1))),
                       BasicBlockData(<<>>, NoTerm))]
    ELSE IF r.stmt = "Graph1"
    THEN [change |-> [kind |-> "Graph", entry |-> n, exit |-> n],
          mir |-> Push(m, BasicBlockData(EntryStmts, NoTerm))]
    ELSE \* "GraphBad": the exit block already has a terminator
         [change |-> [kind |-> "Graph", entry |-> n, exit |-> n + 1],
          mir |-> Push(Push(m, BasicBlockData(EntryStmts, Goto(n + 1))),
                       BasicBlockData(<<>>, Return))]

\* R::term(&self, &terminator, &fact, &mut mir) -> TerminatorChange, and the
\* Mir it leaves
RewriteTerm(r, t, f, m) ==
    LET n == Len(m) IN
    IF r.term = "Terminator" /\ t.kind = "If"
    THEN [change |-> [kind |-> "Terminator", term |-> Goto(t.succs[1])],
          mir |-> m]
    ELSE IF r.term = "Call" /\ t.kind = "Goto"
    THEN [change |-> [kind |-> "Terminator", term |-> Call(t.succs[1])],
          mir |-> m]
    ELSE IF r.term = "Graph" /\ t.kind = "Call"
    THEN [change |-> [kind |-> "Graph", entry |-> n, exit |-> n + 1],
          mir |-> Push(Push(m, BasicBlockData(EntryStmts, Goto(n + 1))),
                       BasicBlockData(ExitStmts, Goto(t.succs[1])))]
    ELSE IF r.term = "Graph1" /\ t.kind = "Call"
    THEN [change |-> [kind |-> "Graph", entry |-> n, exit |-> n],
          mir |-> Push(m, BasicBlockData(EntryStmts, Goto(t.succs[1])))]
    ELSE IF r.term = "GraphBad" /\ t.kind = "Call"
    THEN \* the exit block has no terminator
         [change |-> [kind |-> "Graph", entry |-> n, exit |-> n + 1],
          mir |-> Push(Push(m, BasicBlockData(EntryStmts, Goto(n + 1))),
                       BasicBlockData(<<>>, NoTerm))]
    ELSE [change |-> NoChange, mir |-> m]

-----------------------------------------------------------------------------
(* RewriteAndThen(R1, R2): a rewriter [first, second].  An outcome also    *)
(* records the nodes the second rewriter was invoked on.                   *)

\* unimplemented!()
Unimplemented == "not yet implemented"

and_then(r1, r2) ==
    [stmt |-> "AndThen", term |-> "AndThen", first |-> r1, second |-> r2]

\* self.0 and self.1 are rewriters of any kind, combined ones included
RECURSIVE rewrite_stmt(_, _, _, _)
RECURSIVE rewrite_term(_, _, _, _)

\* an arm that leaves the node alone
StmtNoneArmSkip(r2, s, l, c) ==
    [change |-> NoChange, mir |-> c, invoked |-> <<>>]

\* StatementChange::None => self.1.stmt(s, l, c)
StmtNoneArm(r2, s, l, c) ==
    LET x == rewrite_stmt(r2, s, l, c)
    IN  [change |-> x.change, mir |-> x.mir, invoked |-> <<s>>]

\* an arm that consults the second rewriter
StmtRemoveArmAsk(r2, s, l, c) ==
    LET x == rewrite_stmt(r2, s, l, c)
    IN  [change |-> x.change, mir |-> x.mir, invoked |-> <<s>>]

\* StatementChange::Remove => StatementChange::Remove
StmtRemoveArm(r2, s, l, c) ==
    [change |-> [kind |-> "Remove"], mir |-> c, invoked |-> <<>>]

\* an arm that hands the second rewriter the original statement
StmtStatementArmOriginal(r2, s, ns, l, c) ==
    LET x == rewrite_stmt(r2, s, l, c)
    IN  [change |-> IF x.change.kind = "None"
                    THEN [kind |-> "Statement", stmt |-> ns] ELSE x.change,
         mir |-> x.mir, invoked |-> <<s>>]

\* StatementChange::Statement(ns) => match self.1.stmt(&ns, l, c) { .. }
StmtStatementArm(r2, s, ns, l, c) ==
    LET x == rewrite_stmt(r2, ns, l, c)
    IN  [change |-> IF x.change.kind = "None"
                    THEN [kind |-> "Statement", stmt |-> ns] ELSE x.change,
         mir |-> x.mir, invoked |-> <<ns>>]

\* an arm that passes the first rewriter's graph on
GraphArmPass(ch, c) == [change |-> ch, mir |-> c, invoked |-> <<>>]

\* _ => unimplemented!()
GraphArm(ch, c) ==
    [change |-> [kind |-> "unimplemented"], mir |-> c, invoked |-> <<>>]

\* <RewriteAndThen as Rewrite>::stmt
RewriteAndThenStmt(r, s, l, c) ==
    LET rs == rewrite_stmt(r.first, s, l, c)
    IN  IF rs.change.kind = "None" THEN StmtNoneArm(r.second, s, l, rs.mir)
        ELSE IF rs.change.kind = "Remove"
        THEN StmtRemoveArm(r.second, s, l, rs.mir)
        ELSE IF rs.change.kind = "Statement"
        THEN StmtStatementArm(r.second, s, rs.change.stmt, l, rs.mir)
        ELSE GraphArm(rs.change, rs.mir)

\* <RewriteAndThen as Rewrite>::term
RewriteAndThenTerm(r, t, l, c) ==
    LET rt == rewrite_term(r.first, t, l, c)
    IN  IF rt.change.kind = "None"
        THEN LET x == rewrite_term(r.second, t, l, rt.mir)
             IN  [change |-> x.change, mir |-> x.mir, invoked |-> <<t>>]
        ELSE IF rt.change.kind = "Terminator"
        THEN LET nt == rt.change.term
                 x == rewrite_term(r.second, nt, l, rt.mir)
             IN  [change |-> IF x.change.kind = "None"
                             THEN [kind |-> "Terminator", term |-> nt]
                             ELSE x.change,
                  mir |-> x.mir, invoked |-> <<nt>>]
        ELSE GraphArm(rt.change, rt.mir)

\* rewrite.stmt(..) and rewrite.term(..) on the rewriter the driver passed
rewrite_stmt(r, s, l, c) ==
    IF r.stmt = "AndThen" THEN RewriteAndThenStmt(r, s, l, c)
    ELSE RewriteStmt(r, s, l, c)

rewrite_term(r, t, l, c) ==
    IF r.term = "AndThen" THEN RewriteAndThenTerm(r, t, l, c)
    ELSE RewriteTerm(r, t, l, c)

-----------------------------------------------------------------------------
(* Facts<F> *)

\* a put that extends one slot too far
putFar(v, index, value) ==
    LET len == Len(v)
        ext == v \o [i \in 1..(index + 2 - len) |-> Bottom]
    IN  SetAt(ext, index, value)

\* Facts::put
put(v, index, value) ==
    LET len == Len(v)
        ext == v \o [i \in 1..(index + 1 - len) |-> Bottom]
    IN  SetAt(ext, index, value)

IndexExpect == "facts indexed immutably and the user is buggy!"

\* an index that reads a missing slot as bottom
IndexOrBottom(v, i) ==
    [value |-> IF i < Len(v) THEN At(v, i) ELSE Bottom, panic |-> "none"]

\* <Facts as Index>::index: the value read, or the panic of the expect
Index(v, i) ==
    IF i < Len(v) THEN [value |-> At(v, i), panic |-> "none"]
    ELSE [value |-> Bottom, panic |-> IndexExpect]

\* an access that cuts the store off after the slot it returns
index_mutTruncate(v, index) ==
    IF index >= Len(v) THEN put(v, index, Bottom) ELSE SubSeq(v, 1, index + 1)

\* <Facts as IndexMut>::index_mut: the store after the access
index_mut(v, index) ==
    IF index >= Len(v) THEN put(v, index, Bottom) ELSE v

-----------------------------------------------------------------------------
(* The per-block callbacks *)

SetStatements(m, bb, stmts) == SetAt(m, bb, [At(m, bb) EXCEPT !.statements = stmts])

\* a terminator store that always lands in the start block
SetTerminatorStart(m, bb, t) ==
    SetAt(m, START_BLOCK, [At(m, START_BLOCK) EXCEPT !.terminator = t])

SetTerminator(m, bb, t) == SetAt(m, bb, [At(m, bb) EXCEPT !.terminator = t])

\* a drain that starts one element early
drainEarly(v, from) ==
    [drained |-> SubSeq(v, from, Len(v)), rest |-> SubSeq(v, 1, from)]

\* Vec::drain(from..): the elements removed and the vector left
drain(v, from) ==
    [drained |-> SubSeq(v, from + 1, Len(v)), rest |-> SubSeq(v, 1, from)]

\* a remove that takes the element after
removeNext(v, idx) == SubSeq(v, 1, idx + 1) \o SubSeq(v, idx + 3, Len(v))

\* Vec::remove(idx): the vector left
remove(v, idx) == SubSeq(v, 1, idx) \o SubSeq(v, idx + 2, Len(v))

\* an entry of the history of a visit: the rewriter or the transfer function
\* was applied to node with fact f
Rewrote(node, f) == [op |-> "rewrite", node |-> node, fact |-> f]

Transferred(node, f) == [op |-> "transfer", node |-> node, fact |-> f]

\* a pop that removes nothing
popNothing(v) == v

\* Vec::pop: the vector left
pop(v) == SubSeq(v, 1, Len(v) - 1)

\* StatementChange::Graph { entry, exit } in analyse_rewrite_statements
SpliceStatement(m, bb, f, stmts, idx, entry, exit, dbg) ==
    LET \* mir[exit].statements.extend(statements.drain((statement_index + 1)..))
        d == drain(stmts, idx + 1)
        m1 == SetStatements(m, exit, At(m, exit).statements \o d.drained)
        s1 == d.rest
        \* debug_assert!(mir[exit].terminator.is_none(), ...)
        failed == dbg /\ ~is_none(At(m1, exit).terminator)
        \* mir[exit].terminator = mir[bb].terminator.take()
        t1 == At(m1, bb).terminator
        m2 == SetTerminator(SetTerminator(m1, bb, NoTerm), exit, t1)
        \* statements.pop()
        s2 == pop(s1)
        \* statements.extend(mir[entry].statements.drain(..))
        s3 == s2 \o At(m2, entry).statements
        m3 == SetStatements(m2, entry, <<>>)
        \* mir[bb].terminator = mir[entry].terminator.take()
        t2 == At(m3, entry).terminator
        m4 == SetTerminator(SetTerminator(m3, entry, NoTerm), bb, t2)
    IN  IF failed
        THEN [mir |-> m1, fact |-> f, statements |-> s1, statement_index |-> idx,
              panic |-> "exit block must have no terminator set!",
              applied |-> <<>>]
        ELSE [mir |-> m4,
              \* if statement_index < statements.len() { fact = T::stmt(..) }
              fact |-> IF idx < Len(s3) THEN TransferStmt(s3[idx + 1], f) ELSE f,
              statements |-> s3, statement_index |-> idx, panic |-> "none",
              applied |-> IF idx < Len(s3) THEN <<Transferred(s3[idx + 1], f)>>
                          ELSE <<>>]

\* an iteration whose None arm transfers from bottom
StatementIterationStale(m, bb, f, stmts, idx, ch, dbg) ==
    IF ch.kind = "unimplemented"
    THEN [mir |-> m, fact |-> f, statements |-> stmts, statement_index |-> idx,
          panic |-> Unimplemented, applied |-> <<>>]
    ELSE IF ch.kind = "None"
    THEN [mir |-> m, fact |-> TransferStmt(stmts[idx + 1], Bottom),
          statements |-> stmts, statement_index |-> idx + 1, panic |-> "none",
          applied |-> <<Transferred(stmts[idx + 1], f)>>]
    ELSE IF ch.kind = "Remove"
    THEN [mir |-> m, fact |-> f,
          statements |-> remove(stmts, idx),
          statement_index |-> idx, panic |-> "none", applied |-> <<>>]
    ELSE IF ch.kind = "Statement"
    THEN [mir |-> m, fact |-> TransferStmt(ch.stmt, f),
          statements |-> [stmts EXCEPT ![idx + 1] = ch.stmt],
          statement_index |-> idx + 1, panic |-> "none",
          applied |-> <<Transferred(ch.stmt, f)>>]
    ELSE SpliceStatement(m, bb, f, stmts, idx, ch.entry, ch.exit, dbg)

\* One iteration of the loop of analyse_rewrite_statements, the rewriter's
\* answer being ch and the Mir it left m
StatementIteration(m, bb, f, stmts, idx, ch, dbg) ==
    IF ch.kind = "unimplemented"
    THEN [mir |-> m, fact |-> f, statements |-> stmts, statement_index |-> idx,
          panic |-> Unimplemented, applied |-> <<>>]
    ELSE IF ch.kind = "None"
    THEN [mir |-> m, fact |-> TransferStmt(stmts[idx + 1], f),
          statements |-> stmts, statement_index |-> idx + 1, panic |-> "none",
          applied |-> <<Transferred(stmts[idx + 1], f)>>]
    ELSE IF ch.kind = "Remove"
    THEN [mir |-> m, fact |-> f,
          statements |-> remove(stmts, idx),
          statement_index |-> idx, panic |-> "none", applied |-> <<>>]
    ELSE IF ch.kind = "Statement"
    THEN [mir |-> m, fact |-> TransferStmt(ch.stmt, f),
          statements |-> [stmts EXCEPT ![idx + 1] = ch.stmt],
          statement_index |-> idx + 1, panic |-> "none",
          applied |-> <<Transferred(ch.stmt, f)>>]
    ELSE SpliceStatement(m, bb, f, stmts, idx, ch.entry, ch.exit, dbg)

\* a splice that puts the entry block's statements in front
SpliceTerminatorPrepend(m, bb, entry) ==
    LET stmts == At(m, entry).statements
        m1 == SetStatements(m, entry, <<>>)
        m2 == SetStatements(m1, bb, stmts \o At(m1, bb).statements)
        t == At(m2, entry).terminator
    IN  SetTerminator(SetTerminator(m2, entry, NoTerm), bb, t)

\* TerminatorChange::Graph { entry, .. }
SpliceTerminator(m, bb, entry) ==
    LET stmts == At(m, entry).statements
        m1 == SetStatements(m, entry, <<>>)
        m2 == SetStatements(m1, bb, At(m1, bb).statements \o stmts)
        t == At(m2, entry).terminator
    IN  SetTerminator(SetTerminator(m2, entry, NoTerm), bb, t)

\* "Handle the terminator replacement, rewrite and transfer": the Mir after
\* the match on the rewriter's answer, terminator being the one taken from bb
ReplaceTerminator(m, bb, terminator, ch) ==
    IF ch.kind = "None" THEN SetTerminator(m, bb, terminator)
    ELSE IF ch.kind = "Terminator" THEN SetTerminator(m, bb, ch.term)
    ELSE SpliceTerminator(m, bb, ch.entry)

\* The terminator part of both callbacks: take, rewrite, replace, T::term
TerminatorStep(m, bb, f, r, tk) ==
    LET terminator == At(m, bb).terminator
        rw == rewrite_term(r, terminator, f, SetTerminator(m, bb, NoTerm))
        m1 == ReplaceTerminator(rw.mir, bb, terminator, rw.change)
    IN  IF is_none(terminator)
        THEN [mir |-> m, facts |-> <<>>, panic |-> "invalid terminator state",
              applied |-> <<>>]
        ELSE IF rw.change.kind = "unimplemented"
        THEN [mir |-> rw.mir, facts |-> <<>>, panic |-> Unimplemented,
              applied |-> <<Rewrote(terminator, f)>>]
        ELSE IF is_none(At(m1, bb).terminator)
        THEN [mir |-> m1, facts |-> <<>>, panic |-> "invalid terminator state",
              applied |-> <<Rewrote(terminator, f)>>]
        ELSE [mir |-> m1, facts |-> TransferTerm(tk, At(m1, bb).terminator, f),
              panic |-> "none",
              applied |-> <<Rewrote(terminator, f),
                            Transferred(At(m1, bb).terminator, f)>>]

-----------------------------------------------------------------------------
(* fixpoint: recording the callback's facts *)

\* a recording that stores the fact in place of the join
JoinIntoOverwrite(st, target, f) ==
    CHOOSE r \in
        {[facts |-> SetAt(v, target, f),
          queue |-> IF At(v, target) # f THEN q \cup {target} ELSE q] :
            v \in {index_mut(st.facts, target)}, q \in {st.queue}} : TRUE

\* if Lattice::join(&mut facts[target], &f) { queue.insert(target.index()) }
\* on st = [facts, queue].  (The set constructor makes TLC evaluate st and
\* the slot once.)
JoinInto(st, target, f) ==
    CHOOSE r \in
        {LET j == Join(At(v, target), f)
         IN  [facts |-> SetAt(v, target, j.val),
              queue |-> IF j.changed THEN q \cup {target} ELSE q] :
            v \in {index_mut(st.facts, target)}, q \in {st.queue}} : TRUE

\* for (f, &target) in new_facts.into_iter().zip(targets.iter())
RECURSIVE JoinZip(_, _, _, _)
JoinZip(st, nf, targets, i) ==
    IF i > Len(nf) \/ i > Len(targets) THEN st
    ELSE JoinZip(JoinInto(st, targets[i], nf[i]), nf, targets, i + 1)

\* a zip against the position instead of the successor
JoinForwardEnumerate(fcts, q, nf, succs) ==
    JoinZip([facts |-> fcts, queue |-> q], nf, [i \in 1..Len(succs) |-> i - 1], 1)

\* a zip that stops one pair short
JoinForwardShort(fcts, q, nf, succs) ==
    JoinZip([facts |-> fcts, queue |-> q], SubSeq(nf, 1, Len(nf) - 1), succs, 1)

\* Direction::Forward: the facts zipped with the successors
JoinForward(fcts, q, nf, succs) ==
    JoinZip([facts |-> fcts, queue |-> q], nf, succs, 1)

\* for &target in predecessors.iter() { join new_facts[0] into facts[target] }
RECURSIVE JoinEach(_, _, _)
JoinEach(st, f, targets) ==
    IF targets = {} THEN st
    ELSE LET target == CHOOSE p \in targets : TRUE
         IN  JoinEach(JoinInto(st, target, f), f, targets \ {target})

\* a loop that stops after the first predecessor
JoinBackwardFirst(fcts, q, nf, preds) ==
    JoinEach([facts |-> fcts, queue |-> q], nf[1],
             IF preds = {} THEN {} ELSE {CHOOSE p \in preds : TRUE})

\* Direction::Backward: the one fact joined into every predecessor
JoinBackward(fcts, q, nf, preds) ==
    JoinEach([facts |-> fcts, queue |-> q], nf[1], preds)

-----------------------------------------------------------------------------
(* The drivers' inputs: graphs, fact stores, rewriters, transfers *)

\* bb0 branches to bb1 and bb2, which both go to bb3
Diamond ==
    << BasicBlockData(<<>>, If("c", 1, 2)),
       BasicBlockData(<<Stmt("set", "x", 1)>>, Goto(3)),
       BasicBlockData(<<Stmt("inc", "y", 0)>>, Goto(3)),
       BasicBlockData(<<Stmt("set", "x", 2)>>, Return) >>

\* bb1 loops on itself and leaves to bb2
Loop ==
    << BasicBlockData(<<Stmt("set", "x", 1), Stmt("inc", "y", 0),
                        Stmt("inc", "x", 0)>>, Call(1)),
       BasicBlockData(<<Stmt("inc", "x", 0)>>, If("c", 1, 2)),
       BasicBlockData(<<Stmt("inc", "y", 0)>>, Return) >>

\* bb1 is a loop with no way out
Spin ==
    << BasicBlockData(<<>>, If("c", 1, 2)),
       BasicBlockData(<<Stmt("inc", "x", 0)>>, Goto(1)),
       BasicBlockData(<<Stmt("set", "y", 1)>>, Return) >>

\* the entry block is its own predecessor
Self ==
    << BasicBlockData(<<Stmt("inc", "x", 0)>>, If("c", 0, 1)),
       BasicBlockData(<<>>, Return) >>

\* bb1 cannot be reached from the entry block
Dead ==
    << BasicBlockData(<<Stmt("set", "x", 1)>>, Goto(2)),
       BasicBlockData(<<Stmt("set", "y", 1)>>, Goto(2)),
       BasicBlockData(<<>>, Return) >>

Graphs == {Diamond, Loop, Spin, Self, Dead}

\* Facts::new(), the entry block seeded, and a store that also holds a fact
\* for bb1
FactStores ==
    {<<>>, <<("x" :> 1)>>,
     <<("x" :> 1), [v \in Variables |-> MaxLevel]>>}

Identity == [stmt |-> "None", term |-> "None"]

Rewriters ==
    {[stmt |-> k, term |-> "None"] :
        k \in {"Remove", "Statement", "Graph", "GraphEmpty", "Graph1", "GraphOpen",
                "GraphBad"}}
    \cup {[stmt |-> "None", term |-> k] :
        k \in {"Terminator", "Graph", "Graph1", "GraphBad"}}

\* the rewriters and_then is applied to
Firsts ==
    {Identity}
    \cup {[stmt |-> k, term |-> "None"] : k \in {"Remove", "Statement", "Graph"}}
    \cup {[stmt |-> "None", term |-> k] : k \in {"Terminator", "Graph"}}

Seconds ==
    Firsts \cup {[stmt |-> "RemoveSet", term |-> "None"],
                 [stmt |-> "None", term |-> "Call"]}

Combined == {and_then(r1, r2) : r1 \in Firsts, r2 \in Seconds}

Matching(d) == IF d = "Forward" THEN "PerEdge" ELSE "Single"

Configs ==
    {[g |-> g, d |-> d, t |-> Matching(d), r |-> Identity, f |-> f, dbg |-> FALSE] :
        g \in Graphs, d \in {"Forward", "Backward"}, f \in FactStores}
    \cup
    {[g |-> g, d |-> d, t |-> Matching(IF d = "Forward" THEN "Backward" ELSE "Forward"),
      r |-> Identity, f |-> <<>>, dbg |-> FALSE] :
        g \in {Diamond, Loop}, d \in {"Forward", "Backward"}}
    \cup
    {[g |-> g, d |-> d, t |-> Matching(d), r |-> r, f |-> <<>>, dbg |-> dbg] :
        g \in {Diamond, Loop}, d \in {"Forward", "Backward"}, r \in Rewriters,
        dbg \in BOOLEAN}
    \cup
    {[g |-> g, d |-> d, t |-> Matching(d), r |-> r, f |-> <<>>, dbg |-> FALSE] :
        g \in {Diamond, Loop}, d \in {"Forward", "Backward"}, r \in Combined}

\* analyse_rewrite_forward: queue.insert(START_BLOCK.index())
ForwardSeed(m) == {START_BLOCK}

\* a seed of every block
BackwardSeedAll(m) == 0..(Len(m) - 1)

\* a seed with the test inverted
BackwardSeedInverted(m) ==
    {i \in 0..(Len(m) - 1) : Len(successors(At(m, i).terminator)) # 0}

\* analyse_rewrite_backward: the blocks whose terminator has no successors
BackwardSeed(m) ==
    {i \in 0..(Len(m) - 1) : Len(successors(At(m, i).terminator)) = 0}

-----------------------------------------------------------------------------
(* The state machine *)

Init ==
    \E cfg \in Configs :
        /\ mir = cfg.g
        /\ direction = cfg.d
        /\ transfer = cfg.t
        /\ rewrite = cfg.r
        /\ debug_assertions = cfg.dbg
        /\ fs = cfg.f
        /\ facts = cfg.f
        /\ queue = IF cfg.d = "Forward" THEN ForwardSeed(cfg.g)
                                        ELSE BackwardSeed(cfg.g)
        /\ pc = "loop"
        /\ block = START_BLOCK
        /\ fact = Bottom
        /\ statements = <<>>
        /\ statement_index = 0
        /\ new_facts = <<>>
        /\ panic = "none"
        /\ visited = {}
        /\ entered = cfg.g
        /\ order = <<>>
        /\ produced = <<>>
        /\ outcome = <<>>
        /\ lattice = [ctor |-> "HashMap"]
        /\ receiver = Bottom
        /\ argument = Bottom
        /\ previous = Bottom
        /\ changed = FALSE

Locals == <<block, fact, statements, statement_index, new_facts>>

Inputs == <<direction, rewrite, transfer, debug_assertions, fs>>

History == <<visited, entered>>

LatticeVars == <<lattice, receiver, argument, previous, changed>>

\* while let Some(block) = queue.pop() { let fact = &mut facts[block]; ...
Pop ==
    /\ pc = "loop"
    /\ \E b \in queue :
        /\ queue' = queue \ {b}
        /\ block' = b
        /\ facts' = index_mut(facts, b)
        /\ visited' = visited \cup {b}
    /\ entered' = mir
    /\ order' = <<>>
    /\ pc' = "callback"
    /\ UNCHANGED <<mir, produced, fact, statements, statement_index, new_facts, Inputs, panic,
                 LatticeVars, outcome>>

\* a loop that may end with blocks pending
FinishEarly ==
    /\ pc = "loop"
    /\ pc' = "done"
    /\ UNCHANGED <<mir, facts, queue, Locals, Inputs, History, produced, panic,
                   order, LatticeVars, outcome>>

\* the loop ends: fixpoint returns facts
Finish ==
    /\ pc = "loop"
    /\ queue = {}
    /\ pc' = "done"
    /\ UNCHANGED <<mir, facts, queue, Locals, Inputs, History, produced, panic,
                 order, LatticeVars, outcome>>

\* analyse_rewrite_forward's closure up to the statement loop
ForwardBegin ==
    /\ pc = "callback"
    /\ direction = "Forward"
    /\ fact' = At(facts, block)
    /\ statements' = At(mir, block).statements
    /\ mir' = SetStatements(mir, block, <<>>)
    /\ statement_index' = 0
    /\ pc' = "stmts"
    /\ UNCHANGED <<facts, queue, block, new_facts, Inputs, History, produced, panic,
                 order, LatticeVars, outcome>>

\* one iteration of analyse_rewrite_statements' loop
Statement ==
    /\ pc = "stmts"
    /\ statement_index < Len(statements)
    /\ \E rw \in {rewrite_stmt(rewrite, statements[statement_index + 1], fact, mir)} :
       \E r \in {StatementIteration(rw.mir, block, fact, statements,
                                    statement_index, rw.change, debug_assertions)} :
           /\ mir' = r.mir
           /\ fact' = r.fact
           /\ statements' = r.statements
           /\ statement_index' = r.statement_index
           /\ panic' = r.panic
           /\ order' = order
                  \o <<Rewrote(statements[statement_index + 1], fact)>>
                  \o r.applied
           /\ pc' = IF r.panic = "none" THEN "stmts" ELSE "panic"
    /\ UNCHANGED <<facts, queue, block, new_facts, Inputs, History, produced,
                 LatticeVars, outcome>>

\* analyse_rewrite_forward's closure after the statement loop
ForwardTerminator ==
    /\ pc = "stmts"
    /\ statement_index >= Len(statements)
    /\ direction = "Forward"
    /\ \E r \in {TerminatorStep(SetStatements(mir, block, statements), block,
                                 fact, rewrite, transfer)} :
           /\ mir' = r.mir
           /\ new_facts' = r.facts
           /\ panic' = r.panic
           /\ order' = order \o r.applied
           /\ pc' = IF r.panic = "none" THEN "propagate" ELSE "panic"
    /\ statements' = <<>>
    /\ UNCHANGED <<facts, queue, block, fact, statement_index, Inputs, History, produced,
                 LatticeVars, outcome>>

BackwardAssert == "in backward analysis terminator transfer function must return a vector with exactly one element"

\* analyse_rewrite_backward's closure up to the statement loop
BackwardTerminator ==
    /\ pc = "callback"
    /\ direction = "Backward"
    /\ \E r \in {TerminatorStep(mir, block, At(facts, block), rewrite, transfer)} :
       LET ok == r.panic = "none" /\ Len(r.facts) = 1
       IN  /\ panic' = IF r.panic # "none" THEN r.panic
                       ELSE IF Len(r.facts) # 1 THEN BackwardAssert ELSE "none"
           /\ pc' = IF ok THEN "stmts" ELSE "panic"
           /\ fact' = IF ok THEN r.facts[Len(r.facts)] ELSE At(facts, block)
           /\ statements' = IF ok THEN Reverse(At(r.mir, block).statements) ELSE <<>>
           /\ mir' = IF ok THEN SetStatements(r.mir, block, <<>>) ELSE r.mir
           /\ order' = order \o r.applied
    /\ statement_index' = 0
    /\ UNCHANGED <<facts, queue, block, new_facts, Inputs, History, produced,
                 LatticeVars, outcome>>

\* analyse_rewrite_backward's closure after the statement loop
BackwardEnd ==
    /\ pc = "stmts"
    /\ statement_index >= Len(statements)
    /\ direction = "Backward"
    /\ mir' = SetStatements(mir, block, Reverse(statements))
    /\ new_facts' = <<fact>>
    /\ statements' = <<>>
    /\ pc' = "propagate"
    /\ UNCHANGED <<facts, queue, block, fact, statement_index, Inputs, History, produced, panic,
                 order, LatticeVars, outcome>>

ForwardAssert == "list of facts must match the number of successors"

\* an assertion that lets every length through
FactsMatchAlways(succs, nf) == TRUE

\* assert!(successors.len() == new_facts.len(), ...)
FactsMatch(succs, nf) == Len(succs) = Len(nf)

\* Direction::Forward => { ... }
PropagateForward ==
    /\ pc = "propagate"
    /\ direction = "Forward"
    /\ \E succs \in {successors(At(mir, block).terminator)} :
       \E r \in {JoinForward(facts, queue, new_facts, succs)} :
       LET ok == FactsMatch(succs, new_facts)
       IN  /\ facts' = IF ok THEN r.facts ELSE facts
           /\ queue' = IF ok THEN r.queue ELSE queue
           /\ panic' = IF ok THEN "none" ELSE ForwardAssert
           /\ pc' = IF ok THEN "loop" ELSE "panic"
           /\ produced' = IF ok THEN (block :> new_facts) @@ produced ELSE produced
    /\ fact' = Bottom
    /\ statement_index' = 0
    /\ new_facts' = <<>>
    /\ UNCHANGED <<mir, block, statements, Inputs, History,
                 order, LatticeVars, outcome>>

BackwardFixpointAssert == "backward fixpoint cannot handle new_facts with length != 1"

\* Direction::Backward => { ... }
PropagateBackward ==
    /\ pc = "propagate"
    /\ direction = "Backward"
    /\ \E r \in {JoinBackward(facts, queue, new_facts, predecessors_for(mir, block))} :
       LET ok == Len(new_facts) = 1
       IN  /\ facts' = IF ok THEN r.facts ELSE facts
           /\ queue' = IF ok THEN r.queue ELSE queue
           /\ panic' = IF ok THEN "none" ELSE BackwardFixpointAssert
           /\ pc' = IF ok THEN "loop" ELSE "panic"
           /\ produced' = IF ok THEN (block :> new_facts) @@ produced ELSE produced
    /\ fact' = Bottom
    /\ statement_index' = 0
    /\ new_facts' = <<>>
    /\ UNCHANGED <<mir, block, statements, Inputs, History,
                 order, LatticeVars, outcome>>

\* the driver reads a fact of the returned store: facts[bb]
ReadFact ==
    /\ pc = "done"
    /\ \E bb \in 0..Len(mir) :
       \E r \in {Index(facts, bb)} :
           /\ block' = bb
           /\ fact' = r.value
           /\ panic' = r.panic
           /\ pc' = IF r.panic = "none" THEN "read" ELSE "panic"
    /\ UNCHANGED <<mir, facts, queue, statements, statement_index, new_facts,
                   Inputs, History, produced, order, LatticeVars, outcome>>

Next ==
    \/ Pop
    \/ Finish
    \/ ForwardBegin
    \/ Statement
    \/ ForwardTerminator
    \/ BackwardTerminator
    \/ BackwardEnd
    \/ PropagateForward
    \/ PropagateBackward
    \/ ReadFact

Spec == Init /\ [][Next]_vars

\* fixpoint is one synchronous call: it keeps stepping while it can
FairSpec == Spec /\ WF_vars(Next)

-----------------------------------------------------------------------------
(* A lattice value on its own: a slot that starts at bottom() and is joined *)
(* into, as the engine does with the slots of the fact store                *)

Dataflow == <<mir, facts, queue, direction, pc, block, fact, statements,
              statement_index, new_facts, rewrite, transfer, debug_assertions,
              fs, panic, visited, entered, order, produced>>

LatticeInit ==
    /\ lattice \in Lattices
    /\ receiver = lattice_bottom(lattice)
    /\ argument = receiver
    /\ previous = receiver
    /\ changed = FALSE
    /\ mir = <<>> /\ facts = <<>> /\ queue = {} /\ direction = "Forward"
    /\ pc = "join" /\ block = START_BLOCK /\ fact = Bottom
    /\ statements = <<>> /\ statement_index = 0 /\ new_facts = <<>>
    /\ rewrite = Identity /\ transfer = "PerEdge" /\ debug_assertions = FALSE
    /\ fs = <<>> /\ panic = "none" /\ visited = {}
    /\ entered = <<>> /\ order = <<>> /\ produced = <<>> /\ outcome = <<>>

\* changed = Lattice::join(&mut receiver, &other)
LatticeJoin ==
    /\ pc = "join"
    /\ \E other \in Values(lattice) :
       \E j \in {lattice_join(lattice, receiver, other)} :
           /\ previous' = receiver
           /\ argument' = other
           /\ receiver' = j.val
           /\ changed' = j.changed
    /\ UNCHANGED <<lattice, outcome, Dataflow>>

LatticeNext == LatticeJoin

LatticeSpec == LatticeInit /\ [][LatticeNext]_vars

-----------------------------------------------------------------------------
(* Properties *)

Blocks(m) == 0..(Len(m) - 1)

\* the fact store read as a total mapping: a slot not stored is bottom
FactOf(v, b) == IF b < Len(v) THEN At(v, b) ELSE Bottom

\* the least upper bound of two facts, key by key
Lub(a, b) ==
    [k \in DOMAIN a \cup DOMAIN b |->
        IF Get(a, k) >= Get(b, k) THEN Get(a, k) ELSE Get(b, k)]

\* the rewriters that push no block onto the Mir
NoAlloc(r) ==
    r.stmt \in {"None", "Remove", "Statement"} /\ r.term \in {"None", "Terminator"}

\* C1: for a finite CFG, a finite-height lattice, a transfer that obeys its
\* contract and a rewriter that allocates no blocks, every run of the forward
\* fixpoint, whatever block each pop picks, reaches the end of the loop with
\* the queue empty and returns the fact store.
C1_ForwardTerminates ==
    (direction = "Forward" /\ transfer = "PerEdge" /\ NoAlloc(rewrite))
        => <>(pc = "done" /\ queue = {})

\* C1 witness: a forward run over the looping graph has returned, bb1's fact
\* having climbed to the top of the chain
C1_Witness ==
    /\ pc = "done" /\ queue = {} /\ direction = "Forward"
    /\ mir = Loop /\ NoAlloc(rewrite)
    /\ Get(At(facts, 1), "x") = MaxLevel

\* the fact the driver supplied for the entry block
SeedFact == FactOf(fs, START_BLOCK)

\* C2: in forward analysis, while the entry block has no predecessors its
\* slot holds the fact the driver supplied for it, in every state of the
\* loop and in the store returned.
C2_EntryFactKept ==
    (direction = "Forward" /\ predecessors_for(mir, START_BLOCK) = {}
        /\ Len(facts) > START_BLOCK)
        => At(facts, START_BLOCK) = SeedFact

\* C2 witness: a forward run seeded with a fact for the entry block has
\* returned, other slots having been joined into
C2_Witness ==
    /\ pc = "done" /\ direction = "Forward" /\ Len(fs) > 0
    /\ predecessors_for(mir, START_BLOCK) = {}
    /\ At(facts, START_BLOCK) = SeedFact
    /\ \E b \in Blocks(facts) : b # START_BLOCK /\ At(facts, b) # FactOf(fs, b)

\* the statement transfer applied along a statement list
RECURSIVE TransferStmts(_, _)
TransferStmts(stmts, f) ==
    IF stmts = <<>> THEN f
    ELSE TransferStmts(Tail(stmts), TransferStmt(Head(stmts), f))

\* re-running the transfer on b's fact and joining into its successors
\* changes nothing
FixedPointAt(b) ==
    LET t == At(mir, b).terminator
        out == TransferTerm(transfer, t,
                            TransferStmts(At(mir, b).statements, FactOf(facts, b)))
    IN  \A i \in 1..Len(successors(t)) :
            ~Join(FactOf(facts, successors(t)[i]), out[i]).changed

ForwardNoRewrite ==
    direction = "Forward" /\ transfer = "PerEdge" /\ rewrite = Identity

\* C3 as stated: when forward analysis without rewrites has returned, every
\* block of the CFG is at a fixed point (here even with the driver's store
\* holding at most the entry block's fact).
C3_Original ==
    (pc = "done" /\ ForwardNoRewrite /\ Len(fs) <= 1)
        => \A b \in Blocks(mir) : FixedPointAt(b)

\* C3 as amended: when forward analysis without rewrites has returned, every
\* block the loop processed is at a fixed point.
C3_ProcessedBlocksFixed ==
    (pc = "done" /\ ForwardNoRewrite) => \A b \in visited : FixedPointAt(b)

\* C3 witness: a forward run without rewrites has returned having processed
\* a block with two successors and a block more than once reachable
C3_Witness ==
    /\ pc = "done" /\ ForwardNoRewrite
    /\ mir = Loop /\ visited = {0, 1, 2}
    /\ \A b \in visited : FixedPointAt(b)

\* C4: the diamond analysed forward from an empty or entry-seeded store ends
\* with the exit block holding the variables of both branches (x from bb1, y
\* from bb2, c from the branch itself), whatever order the blocks were
\* popped in.
C4_DiamondUnion ==
    (pc = "done" /\ ForwardNoRewrite /\ mir = Diamond /\ Len(fs) <= 1)
        => FactOf(facts, 3) = [v \in {"c", "x", "y"} |->
                              IF v = "c" THEN 2 ELSE 1]

\* C4 witness: the diamond's forward run has returned with both branches
\* processed
C4_Witness ==
    /\ pc = "done" /\ ForwardNoRewrite /\ mir = Diamond /\ Len(fs) <= 1
    /\ visited = {0, 1, 2, 3}
    /\ DOMAIN At(facts, 3) = {"c", "x", "y"}

\* the least upper bound of a fact and a set of facts
RECURSIVE LubAll(_, _)
LubAll(a, fs_) ==
    IF fs_ = {} THEN a
    ELSE LET f == CHOOSE x \in fs_ : TRUE IN LubAll(Lub(a, f), fs_ \ {f})

Range(seq) == {seq[i] : i \in 1..Len(seq)}

\* the successors of the terminator the processed block holds when the
\* callback has returned
CurrentSuccessors == successors(At(mir, block).terminator)

\* what a forward step should leave in slot t
ForwardExpected(t) ==
    LubAll(FactOf(facts, t),
           {new_facts[i] : i \in {k \in 1..Len(new_facts) : CurrentSuccessors[k] = t}})

\* C5: a forward step joins the i-th returned fact into the slot of the i-th
\* successor of the terminator the block holds after the callback, touches no
\* other slot, and inserts into the queue exactly the successors whose slot a
\* join changed.
C5_ForwardPropagation ==
    [][(pc = "propagate" /\ direction = "Forward"
            /\ Len(new_facts) = Len(CurrentSuccessors))
        => /\ \A t \in Blocks(facts') \cup Range(CurrentSuccessors) :
                 t < Len(facts') /\ At(facts', t) = ForwardExpected(t)
           /\ queue' = queue \cup {t \in Range(CurrentSuccessors) :
                                      ForwardExpected(t) # FactOf(facts, t)}]_vars

\* C5 witness: the diamond's entry block has been processed: its first
\* successor holds the first edge's fact, its second successor the second
\* edge's, and both were inserted
C5_Witness ==
    /\ pc = "loop" /\ direction = "Forward" /\ visited = {0}
    /\ At(mir, 0).terminator = If("c", 1, 2)
    /\ Get(FactOf(facts, 1), "c") = 1
    /\ Get(FactOf(facts, 2), "c") = 2
    /\ queue = {1, 2}

\* what a backward step should leave in slot t
BackwardExpected(t) ==
    IF t \in predecessors_for(mir, block)
    THEN Lub(FactOf(facts, t), new_facts[1])
    ELSE FactOf(facts, t)

\* C6: a backward step joins the one returned fact into the slot of every
\* predecessor of the processed block, leaves every other slot as it was, and
\* inserts into the queue exactly the predecessors whose slot the join
\* changed.
C6_BackwardPropagation ==
    [][(pc = "propagate" /\ direction = "Backward" /\ Len(new_facts) = 1)
        => /\ Len(facts') >= Len(facts)
           /\ \A t \in Blocks(facts') \cup predecessors_for(mir, block) :
                 t < Len(facts') /\ At(facts', t) = BackwardExpected(t)
           /\ queue' = queue \cup {t \in predecessors_for(mir, block) :
                                      BackwardExpected(t) # FactOf(facts, t)}]_vars

\* C6 witness: the diamond's exit block has been processed backward: both
\* its predecessors hold its fact and both were inserted
C6_Witness ==
    /\ pc = "loop" /\ direction = "Backward" /\ visited = {3}
    /\ predecessors_for(mir, 3) = {1, 2}
    /\ FactOf(facts, 1) = FactOf(facts, 2) /\ FactOf(facts, 1) # Bottom
    /\ FactOf(facts, 0) = Bottom
    /\ queue = {1, 2}

\* C7: before the first pop the queue holds exactly the entry block in
\* forward analysis, and exactly the blocks whose terminator has no
\* successors in backward analysis.
C7_InitialQueue ==
    (pc = "loop" /\ visited = {})
        => /\ direction = "Forward" => queue = {START_BLOCK}
           /\ direction = "Backward" =>
                 \A b \in Blocks(mir) :
                     b \in queue <=> At(mir, b).terminator.succs = <<>>
           /\ queue \subseteq Blocks(mir)

\* C7 witness: a backward run is about to start on a graph some of whose
\* blocks have successors and some have not
C7_Witness ==
    /\ pc = "loop" /\ visited = {} /\ direction = "Backward"
    /\ queue # {} /\ queue # Blocks(mir)
    /\ START_BLOCK \notin queue

\* C8: a terminator-transfer result of the wrong length (forward: not one
\* fact per successor; backward: not exactly one fact) aborts the fixpoint:
\* nothing is joined, nothing is enqueued, and no fact store is ever returned.
C8_WrongLengthFatal ==
    [][/\ (pc = "propagate" /\ direction = "Forward"
               /\ Len(new_facts) # Len(CurrentSuccessors))
           => (pc' = "panic" /\ panic' = ForwardAssert
                 /\ facts' = facts /\ queue' = queue)
       /\ (pc = "callback" /\ direction = "Backward"
               /\ ~is_none(At(mir', block).terminator)
               /\ Len(TransferTerm(transfer, At(mir', block).terminator,
                                   At(facts, block))) # 1)
           => (pc' = "panic" /\ panic' = BackwardAssert
                 /\ facts' = facts /\ queue' = queue)
       /\ pc = "panic" => pc' = "panic"]_vars

\* C8 witness: a forward run has aborted on the length assertion of fixpoint
C8_Witness ==
    /\ pc = "panic" /\ panic = ForwardAssert /\ direction = "Forward"
    /\ Len(CurrentSuccessors) = 2

\* the next step is the callback's terminator rewrite
TerminatorRewriteDue ==
    \/ (pc = "stmts" /\ statement_index >= Len(statements) /\ direction = "Forward")
    \/ (pc = "callback" /\ direction = "Backward")

\* the fact the terminator rewrite is handed
PreTerminatorFact == IF direction = "Forward" THEN fact ELSE At(facts, block)

\* C9 as stated: a statement-level splice whose exit block already has a
\* terminator, and a terminator-level splice whose exit block has none, each
\* abort the engine at the step that would relink the graph.
C9_BadSpliceFatal ==
    [][/\ (pc = "stmts" /\ statement_index < Len(statements)
               /\ LET rw == rewrite_stmt(rewrite, statements[statement_index + 1],
                                         fact, mir)
                  IN  /\ rw.change.kind = "Graph"
                      /\ ~is_none(At(rw.mir, rw.change.exit).terminator))
           => pc' = "panic"
       /\ (/\ TerminatorRewriteDue
            /\ LET rw == rewrite_term(rewrite, At(mir, block).terminator,
                                      PreTerminatorFact, mir)
               IN  /\ rw.change.kind = "Graph"
                   /\ is_none(At(rw.mir, rw.change.exit).terminator))
           => pc' = "panic"]_vars

\* the rewriters whose Graph outcomes meet the documented preconditions
Lawful(r) == r.stmt \notin {"GraphBad", "GraphOpen"} /\ r.term # "GraphBad"

\* C10 as stated: when the callback has returned to the loop after outcomes
\* that meet the rewrite preconditions, every block of the graph has a
\* terminator and every successor names a block of the graph.
C10_GraphValidAfterCallback ==
    (pc = "propagate" /\ Lawful(rewrite))
        => \A b \in Blocks(mir) :
              /\ ~is_none(At(mir, b).terminator)
              /\ \A i \in 1..Len(At(mir, b).terminator.succs) :
                     At(mir, b).terminator.succs[i] \in Blocks(mir)

-----------------------------------------------------------------------------
(* Splice shape *)

\* the rewriter's answer for the statement under the cursor
StmtRewrite == rewrite_stmt(rewrite, statements[statement_index + 1], fact, mir)

\* the next step of a forward run is a statement-level splice whose exit block
\* holds no terminator
ForwardSpliceDue ==
    /\ pc = "stmts" /\ direction = "Forward"
    /\ statement_index < Len(statements)
    /\ StmtRewrite.change.kind = "Graph"
    /\ is_none(At(StmtRewrite.mir, StmtRewrite.change.exit).terminator)

\* the shape C11 describes, E and X being the splice's entry and exit, m the
\* Mir the rewriter left and B's statement vector being the swapped-out
\* statements
SpliceShape ==
    LET m == StmtRewrite.mir
        E == StmtRewrite.change.entry
        X == StmtRewrite.change.exit
        i == statement_index
    IN  /\ At(mir', X).statements
              = At(m, X).statements \o SubSeq(statements, i + 2, Len(statements))
        /\ At(mir', X).terminator = At(m, block).terminator
        /\ statements' = SubSeq(statements, 1, i) \o At(m, E).statements
        /\ At(mir', block).terminator = At(m, E).terminator
        /\ Len(mir') = Len(m)
        /\ \A b \in Blocks(m) \ {block, E, X} : At(mir', b) = At(m, b)

\* C11 as stated: every forward statement-level splice with subgraph (E, X),
\* X holding no terminator, leaves X with its statements followed by the tail
\* and B's terminator, and B with its head followed by E's statements and E's
\* former terminator.
C11_Original == [][ForwardSpliceDue => SpliceShape]_vars

\* C11 as amended: the same, for an exit block X that is not the entry block E.
C11_SpliceShapeDistinct ==
    [][(ForwardSpliceDue /\ StmtRewrite.change.entry # StmtRewrite.change.exit)
        => SpliceShape]_vars

\* C11 witness: bb0 of the looping graph, [x = 1, y += 1, x += 1] -> call bb1,
\* has had y += 1 replaced by the graph (bb3, bb4): bb4 holds its statement and
\* the tail and calls bb1, the swapped-out vector holds the head and bb3's
\* statements, and bb0 has bb3's terminator
C11_Witness ==
    /\ pc = "stmts" /\ direction = "Forward" /\ rewrite.stmt = "Graph"
    /\ block = 0 /\ Len(mir) = 5
    /\ At(mir, 4) = BasicBlockData(ExitStmts \o <<Stmt("inc", "x", 0)>>, Call(1))
    /\ statements = <<Stmt("set", "x", 1)>> \o EntryStmts
    /\ At(mir, 0).terminator = Goto(4)
    /\ At(mir, 3) = BasicBlockData(<<>>, NoTerm)

\* the next step is the splice of the regression scenario: index 1 of a block
\* of three statements, the entry block holding one statement and no
\* terminator, the exit block another block holding nothing
ScenarioDue ==
    /\ ForwardSpliceDue
    /\ Len(statements) = 3 /\ statement_index = 1
    /\ ~is_none(At(mir, block).terminator)
    /\ LET E == At(StmtRewrite.mir, StmtRewrite.change.entry)
           X == At(StmtRewrite.mir, StmtRewrite.change.exit)
       IN  /\ StmtRewrite.change.entry # StmtRewrite.change.exit
           /\ Len(E.statements) = 1 /\ is_none(E.terminator)
           /\ X = BasicBlockData(<<>>, NoTerm)

TermRewrite ==
    rewrite_term(rewrite, At(mir, block).terminator, PreTerminatorFact, mir)

\* the next step is a terminator-level splice
TerminatorSpliceDue ==
    TerminatorRewriteDue /\ TermRewrite.change.kind = "Graph"

\* the statements of the processed block before and after the terminator
\* step: the forward callback swaps them back in before it, the backward
\* callback swaps them out, reversed, after it
BStatementsBefore ==
    IF direction = "Forward" THEN statements ELSE At(mir, block).statements

BStatementsAfter ==
    IF direction = "Forward" THEN At(mir', block).statements
    ELSE Reverse(statements')

\* the shape C13 describes
TerminatorSpliceShape ==
    LET m == TermRewrite.mir
        E == TermRewrite.change.entry
        X == TermRewrite.change.exit
    IN  /\ BStatementsAfter = BStatementsBefore \o At(m, E).statements
        /\ At(mir', block).terminator = At(m, E).terminator
        /\ At(mir', X) = At(m, X)

-----------------------------------------------------------------------------
(* The sequencing combinator *)

\* the statements, terminators and facts of the state, as arguments for the
\* rewriters
AllStatements ==
    UNION {Range(At(mir, b).statements) : b \in Blocks(mir)} \cup Range(statements)

AllTerminators == {At(mir, b).terminator : b \in Blocks(mir)} \ {NoTerm}

AllFacts == {fact} \cup Range(facts)

Outcome(x) == [change |-> x.change, mir |-> x.mir]

IsAndThen == rewrite.stmt = "AndThen"

FirstStmt(s, l) == RewriteStmt(rewrite.first, s, l, mir)

FirstTerm(t, l) == RewriteTerm(rewrite.first, t, l, mir)

\* C14: on every statement, terminator and fact for which R1 returns
\* No-change, R1.and_then(R2) returns exactly the outcome of R2 on that node,
\* whatever kind of outcome it is.
C14_NoChangeThenSecond ==
    IsAndThen =>
        \A l \in AllFacts :
            /\ \A s \in AllStatements :
                  FirstStmt(s, l).change.kind = "None"
                      => /\ Outcome(rewrite_stmt(rewrite, s, l, mir))
                              = RewriteStmt(rewrite.second, s, l, mir)
                         /\ rewrite_stmt(rewrite, s, l, mir).invoked = <<s>>
            /\ \A t \in AllTerminators :
                  FirstTerm(t, l).change.kind = "None"
                      => /\ Outcome(rewrite_term(rewrite, t, l, mir))
                              = RewriteTerm(rewrite.second, t, l, mir)
                         /\ rewrite_term(rewrite, t, l, mir).invoked = <<t>>

\* C14 witness: identity.and_then(R2), R2 splicing, has run on bb0 of the
\* looping graph: R2's graph replaced y += 1
C14_Witness ==
    /\ IsAndThen /\ rewrite.first = Identity /\ rewrite.second.stmt = "Graph"
    /\ pc = "stmts" /\ direction = "Forward" /\ block = 0
    /\ Len(mir) = 5
    /\ statements = <<Stmt("set", "x", 1)>> \o EntryStmts

\* C15: on every statement for which R1 returns Remove, R1.and_then(R2)
\* returns Remove, R2 is invoked on nothing and the graph is as R1 left it.
C15_RemoveWins ==
    IsAndThen =>
        \A l \in AllFacts : \A s \in AllStatements :
            FirstStmt(s, l).change.kind = "Remove"
                => /\ rewrite_stmt(rewrite, s, l, mir).change = [kind |-> "Remove"]
                   /\ rewrite_stmt(rewrite, s, l, mir).invoked = <<>>
                   /\ rewrite_stmt(rewrite, s, l, mir).mir = mir

\* C15 witness: remove.and_then(R2), R2 splicing, has run on bb0 of the
\* looping graph: y += 1 is gone and no block was pushed
C15_Witness ==
    /\ IsAndThen /\ rewrite.first.stmt = "Remove" /\ rewrite.second.stmt = "Graph"
    /\ pc = "stmts" /\ direction = "Forward" /\ block = 0
    /\ statements = <<Stmt("set", "x", 1), Stmt("inc", "x", 0)>>
    /\ statement_index = 1
    /\ Len(mir) = 3

\* C16: on every node that R1 replaces with a single node n, R1.and_then(R2)
\* invokes R2 on n with the same fact; its outcome is Replace(n) when R2
\* returns No-change on n, and R2's outcome on n otherwise.
C16_ReplaceThenSecond ==
    IsAndThen =>
        \A l \in AllFacts :
            /\ \A s \in AllStatements :
                  FirstStmt(s, l).change.kind = "Statement"
                      => LET n == FirstStmt(s, l).change.stmt
                             x == RewriteStmt(rewrite.second, n, l, mir)
                             o == rewrite_stmt(rewrite, s, l, mir)
                         IN  /\ o.invoked = <<n>>
                             /\ x.change.kind = "None"
                                   => o.change = [kind |-> "Statement", stmt |-> n]
                             /\ x.change.kind # "None" => Outcome(o) = x
            /\ \A t \in AllTerminators :
                  FirstTerm(t, l).change.kind = "Terminator"
                      => LET n == FirstTerm(t, l).change.term
                             x == RewriteTerm(rewrite.second, n, l, mir)
                             o == rewrite_term(rewrite, t, l, mir)
                         IN  /\ o.invoked = <<n>>
                             /\ x.change.kind = "None"
                                   => o.change = [kind |-> "Terminator", term |-> n]
                             /\ x.change.kind # "None" => Outcome(o) = x

\* C16 witness: R1 folded y += 1 of bb0 of the looping graph into an
\* assignment, which R2, removing assignments and nothing else, removed
C16_Witness ==
    /\ IsAndThen /\ rewrite.first.stmt = "Statement"
    /\ rewrite.second.stmt = "RemoveSet"
    /\ pc = "stmts" /\ direction = "Forward" /\ block = 0
    /\ statements = <<Stmt("set", "x", 1), Stmt("inc", "x", 0)>>
    /\ statement_index = 1

\* C17: on every node for which R1 returns a subgraph, R1.and_then(R2) gives
\* no outcome and invokes R2 on nothing, and the step of the engine that asked
\* ends the run in the unimplemented!() panic.
C17_GraphThenUnimplemented ==
    [][IsAndThen =>
        /\ \A l \in AllFacts :
              /\ \A s \in AllStatements :
                    FirstStmt(s, l).change.kind = "Graph"
                        => /\ rewrite_stmt(rewrite, s, l, mir).change.kind
                                = "unimplemented"
                           /\ rewrite_stmt(rewrite, s, l, mir).invoked = <<>>
              /\ \A t \in AllTerminators :
                    FirstTerm(t, l).change.kind = "Graph"
                        => /\ rewrite_term(rewrite, t, l, mir).change.kind
                                = "unimplemented"
                           /\ rewrite_term(rewrite, t, l, mir).invoked = <<>>
        /\ (pc = "stmts" /\ statement_index < Len(statements)
               /\ FirstStmt(statements[statement_index + 1], fact).change.kind = "Graph")
              => (pc' = "panic" /\ panic' = Unimplemented)
        /\ (TerminatorRewriteDue /\ ~is_none(At(mir, block).terminator)
               /\ FirstTerm(At(mir, block).terminator, PreTerminatorFact).change.kind
                     = "Graph")
              => (pc' = "panic" /\ panic' = Unimplemented)]_vars

\* C17 witness: R1 answered y += 1 of bb0 of the looping graph with a
\* subgraph and the run has ended in the panic, R2 being a rewriter that would
\* have acted
C17_Witness ==
    /\ IsAndThen /\ rewrite.first.stmt = "Graph" /\ rewrite.second.stmt = "Remove"
    /\ pc = "panic" /\ panic = Unimplemented
    /\ block = 0 /\ statement_index = 1 /\ Len(statements) = 3

-----------------------------------------------------------------------------
(* The lattice wrappers.  A step joins argument' into receiver, leaving     *)
(* receiver' and returning changed'.                                        *)

IsTop(x) == x.tag = "Top"

IsBottom(x) == x.tag = "Bottom"

IsValue(x) == x.tag = "Value"

\* C18: WTop<T>::join: Top joined with anything stays Top and returns false;
\* a value joined with Top becomes Top and returns true; two values are joined
\* by T's join and its flag is returned.
C18_WTopJoin ==
    [][lattice.ctor = "WTop" =>
        /\ IsTop(receiver) => (IsTop(receiver') /\ ~changed')
        /\ (IsValue(receiver) /\ IsTop(argument'))
              => (IsTop(receiver') /\ changed')
        /\ (IsValue(receiver) /\ IsValue(argument'))
              => LET j == lattice_join(lattice.arg, receiver.v, argument'.v)
                 IN  receiver' = Value(j.val) /\ changed' = j.changed
        /\ (lattice.arg = LevelType /\ IsValue(receiver) /\ IsValue(argument'))
              => /\ receiver' = Value(IF argument'.v > receiver.v
                                      THEN argument'.v ELSE receiver.v)
                 /\ changed' = (argument'.v > receiver.v)]_vars

\* C18 witness: a WTop<Level> value that had been raised has been joined with
\* Top, has become Top, and the join returned true
C18_Witness ==
    /\ lattice = WTop(LevelType)
    /\ previous = Value(MaxLevel) /\ argument = Top
    /\ receiver = Top /\ changed

\* C19: WBottom<T>::join: Bottom joined with a value becomes that value and
\* returns true; Bottom joined with Bottom, and a value joined with Bottom,
\* stay as they were and return false; two values are joined by T's join; and
\* neither bottom() nor join evaluates T's bottom().
C19_WBottomJoin ==
    [][lattice.ctor = "WBottom" =>
        /\ (IsBottom(receiver) /\ IsValue(argument'))
              => (receiver' = argument' /\ changed')
        /\ (IsBottom(receiver) /\ IsBottom(argument'))
              => (IsBottom(receiver') /\ ~changed')
        /\ (IsValue(receiver) /\ IsBottom(argument'))
              => (receiver' = receiver /\ ~changed')
        /\ (IsValue(receiver) /\ IsValue(argument'))
              => LET j == lattice_join(lattice.arg, receiver.v, argument'.v)
                 IN  receiver' = Value(j.val) /\ changed' = j.changed
        /\ IsBottom(lattice_bottom(lattice))
        /\ IsValue(receiver') => receiver'.v # Bug]_vars

\* C19 witness: the bottom() of a WBottom over a chain whose bottom() panics
\* has been joined with a wrapped value, has become it, and the join returned
\* true
C19_Witness ==
    /\ lattice = WBottom(NoBottomType)
    /\ lattice_bottom(lattice.arg) = Bug
    /\ previous = WBottomBottom /\ argument = Value(1)
    /\ receiver = Value(1) /\ changed

\* the three kinds of WTopBottom<T> values
IsV(x) == IsValue(x) /\ IsValue(x.v)

IsB(x) == IsValue(x) /\ IsBottom(x.v)

\* C20: WTop<WBottom<Level>> obeys the nine documented rules, and its bottom()
\* is the wrapped bottom marker.
C20_WTopBottomRules ==
    [][lattice = WTopBottom(LevelType) =>
        /\ (IsV(receiver) /\ IsV(argument'))
              => LET j == LevelJoin(receiver.v.v, argument'.v.v)
                 IN  receiver' = Value(Value(j.val)) /\ changed' = j.changed
        /\ (IsV(receiver) /\ IsB(argument')) => (receiver' = receiver /\ ~changed')
        /\ (IsV(receiver) /\ IsTop(argument')) => (IsTop(receiver') /\ changed')
        /\ (IsB(receiver) /\ IsV(argument')) => (receiver' = argument' /\ changed')
        /\ (IsB(receiver) /\ IsB(argument')) => (IsB(receiver') /\ ~changed')
        /\ (IsB(receiver) /\ IsTop(argument')) => (IsTop(receiver') /\ changed')
        /\ IsTop(receiver) => (IsTop(receiver') /\ ~changed')
        /\ lattice_bottom(lattice) = Value(WBottomBottom)]_vars

\* C20 witness: the bottom() of WTop<WBottom<Level>> has been joined with Top,
\* has become Top, and the join returned true
C20_Witness ==
    /\ lattice = WTopBottom(LevelType)
    /\ IsB(previous) /\ previous = lattice_bottom(lattice)
    /\ IsTop(argument) /\ IsTop(receiver) /\ changed

-----------------------------------------------------------------------------
(* The key-mapping lattice and the bottom law *)

\* C21: HashMap::join leaves the receiver with exactly the keys of either
\* map: a key only the other map has takes its value, a key only the receiver
\* has keeps its value, a shared key takes the join of the two values; it
\* returns true exactly when a key was inserted or a join of values returned
\* true, so a map joined with itself is unchanged and returns false.
C21_HashMapJoin ==
    [][lattice = HashMapType =>
        /\ DOMAIN receiver' = DOMAIN receiver \cup DOMAIN argument'
        /\ \A k \in DOMAIN receiver' :
              receiver'[k] =
                  IF k \notin DOMAIN receiver THEN argument'[k]
                  ELSE IF k \notin DOMAIN argument' THEN receiver[k]
                  ELSE LevelJoin(receiver[k], argument'[k]).val
        /\ changed' <=>
              \E k \in DOMAIN argument' :
                  \/ k \notin DOMAIN receiver
                  \/ LevelJoin(receiver[k], argument'[k]).changed
        /\ argument' = receiver => (receiver' = receiver /\ ~changed')]_vars

\* C21 witness: a map with x and y has been joined with a map that has a
\* higher x and a lower y: x was raised, y kept, and the join returned true
C21_Witness ==
    /\ lattice = HashMapType
    /\ previous = [k \in {"x", "y"} |-> 1]
    /\ argument = [k \in {"x", "y"} |-> IF k = "x" THEN MaxLevel ELSE 0]
    /\ receiver = [k \in {"x", "y"} |-> IF k = "x" THEN MaxLevel ELSE 1]
    /\ changed

\* C22: for WTop, WBottom, WTop<WBottom> and HashMap, a value joined with the
\* bottom() of its type is unchanged and the join returns false.
C22_JoinBottom ==
    [][(lattice \in Lattices /\ argument' = lattice_bottom(lattice))
        => (receiver' = receiver /\ ~changed')]_vars

\* C22 witness: a wrapped value of WTop<WBottom<Level>> has been joined with
\* bottom(), is as it was, and the join returned false
C22_Witness ==
    /\ lattice = WTopBottom(LevelType)
    /\ argument = lattice_bottom(lattice)
    /\ previous = Value(Value(1)) /\ receiver = previous /\ ~changed

-----------------------------------------------------------------------------
(* The fact store's accessors *)

\* C23: the mutable access to slot i that the loop makes when it pops block i
\* extends a store of length at most i with bottom() in every slot from the
\* old length up to and including i, leaves a longer store as it is, and in
\* both cases keeps every stored value.
C23_IndexMutExtends ==
    [][(pc = "loop" /\ pc' = "callback") =>
        LET i == block' IN
        /\ i >= Len(facts)
              => /\ Len(facts') = i + 1
                 /\ \A k \in Len(facts)..i : At(facts', k) = Bottom
        /\ i < Len(facts) => facts' = facts
        /\ \A k \in Blocks(facts) : At(facts', k) = At(facts, k)]_vars

\* C23 witness: the backward run over the diamond, given a store that holds
\* only the entry block's fact, has popped bb3: the store has four slots, the
\* first as supplied, the others bottom
C23_Witness ==
    /\ pc = "callback" /\ direction = "Backward" /\ block = 3
    /\ visited = {3} /\ Len(fs) = 1
    /\ Len(facts) = 4 /\ At(facts, 0) = At(fs, 0) /\ At(fs, 0) # Bottom
    /\ \A k \in 1..3 : At(facts, k) = Bottom

\* C24: a read of the returned store through the read-only accessor ends in
\* the panic of its expect when the index is at or beyond the length and
\* yields the stored value otherwise; it never changes the store.
C24_IndexPanics ==
    [][(pc = "done" /\ pc' # "done") =>
        /\ facts' = facts
        /\ block' >= Len(facts) => (pc' = "panic" /\ panic' = IndexExpect)
        /\ block' < Len(facts)
              => (pc' = "read" /\ panic' = "none" /\ fact' = At(facts, block'))]_vars

\* C24 witness: the driver has read the slot of a block that the analysis
\* never reached and the store never grew to
C24_Witness ==
    /\ pc = "panic" /\ panic = IndexExpect
    /\ block \in Blocks(mir) /\ block >= Len(facts)

-----------------------------------------------------------------------------
(* The queue *)

\* C25: every run of the loop ends, by returning or by a panic; it returns
\* only with the queue empty; a block leaves the queue only by being popped,
\* whichever pending block the pop picks; and the callback of a popped block
\* runs to its end unless it panics.  So every block inserted is popped and
\* processed before fixpoint returns.
C25_PendingBlocksProcessed ==
    /\ <>(pc = "done" \/ pc = "panic")
    /\ [](pc = "done" => queue = {})
    /\ [][\A b \in queue \ queue' :
             pc = "loop" /\ pc' = "callback" /\ block' = b]_vars
    /\ [][\A b \in queue' \ queue : pc = "propagate"]_vars
    /\ (pc = "callback") ~> (pc = "propagate" \/ pc = "panic")

\* C25 witness: the forward run over the diamond has returned: bb1, bb2 and
\* bb3, inserted while the loop ran, have all been popped, and nothing is
\* pending
C25_Witness ==
    /\ pc = "done" /\ direction = "Forward" /\ mir = Diamond
    /\ rewrite = Identity /\ transfer = "PerEdge"
    /\ visited = {0, 1, 2, 3} /\ queue = {}

\* the blocks of m from which a block of S can be reached
RECURSIVE Reaching(_, _)
Reaching(m, S) ==
    LET S2 == S \cup {b \in Blocks(m) :
                         \E i \in 1..Len(successors(At(m, b).terminator)) :
                             successors(At(m, b).terminator)[i] \in S}
    IN  IF S2 = S THEN S ELSE Reaching(m, S2)

\* the blocks from which a block without successors can be reached
CanExit(m) ==
    Reaching(m, {b \in Blocks(m) : successors(At(m, b).terminator) = <<>>})

\* C26: in backward analysis of a graph that is not rewritten, a block from
\* which no block without successors can be reached is never in the queue and
\* never processed, and its slot reads as the driver supplied it: bottom when
\* the driver supplied nothing.
C26_ExitlessLoopUntouched ==
    (direction = "Backward" /\ rewrite = Identity)
        => \A b \in Blocks(mir) \ CanExit(mir) :
              /\ b \notin queue
              /\ b \notin visited
              /\ FactOf(facts, b) = FactOf(fs, b)
              /\ Len(fs) <= b => FactOf(facts, b) = Bottom

\* C26 witness: the backward run over the graph whose bb1 loops on itself has
\* returned: bb2 and bb0 were processed, bb0 holds a fact, bb1 holds bottom
C26_Witness ==
    /\ pc = "done" /\ direction = "Backward" /\ mir = Spin
    /\ rewrite = Identity /\ fs = <<>>
    /\ Blocks(mir) \ CanExit(mir) = {1}
    /\ visited = {0, 2}
    /\ FactOf(facts, 0) # Bottom /\ FactOf(facts, 1) = Bottom

-----------------------------------------------------------------------------
(* One visit of a block *)

\* the rewriters that never answer with a subgraph
NoGraphRule(r) ==
    /\ r.stmt \in {"None", "Remove", "RemoveSet", "Statement"}
    /\ r.term \in {"None", "Terminator", "Call"}

NoGraph(r) ==
    IF r.stmt = "AndThen" THEN NoGraphRule(r.first) /\ NoGraphRule(r.second)
    ELSE NoGraphRule(r)

\* a is b with some elements left out
RECURSIVE IsSubseq(_, _)
IsSubseq(a, b) ==
    IF a = <<>> THEN TRUE
    ELSE IF b = <<>> THEN FALSE
    ELSE IF Head(a) = Head(b) THEN IsSubseq(Tail(a), Tail(b))
    ELSE IsSubseq(a, Tail(b))

\* s last to first
Backwards(s) == [i \in 1..Len(s) |-> s[Len(s) + 1 - i]]

\* the nodes the rewriter was handed during the visit, in order
RewrittenNodes ==
    LET IsRewrite(e) == e.op = "rewrite"
        rs == SelectSeq(order, IsRewrite)
    IN  [i \in 1..Len(rs) |-> rs[i].node]

\* the statements of the processed block that it already held when popped
Survivors ==
    LET IsOriginal(x) == x \in Range(At(entered, block).statements)
    IN  SelectSeq(At(mir, block).statements, IsOriginal)

InVisit == pc \in {"callback", "stmts", "propagate"}

\* what the transfer recorded in entry e of the history gave the callback
Out(e) ==
    IF "kind" \in DOMAIN e.node THEN TransferTerm(transfer, e.node, e.fact)[1]
    ELSE TransferStmt(e.node, e.fact)

StatementOutcomeDue(k) ==
    /\ pc = "stmts" /\ statement_index < Len(statements)
    /\ StmtRewrite.change.kind = k

\* the transfers the step adds to the history of the visit
StepTransfers ==
    LET IsTransfer(e) == e.op = "transfer"
    IN  SelectSeq(SubSeq(order', Len(order) + 1, Len(order')), IsTransfer)

\* C29: in the statement loop, Remove deletes the statement under the cursor
\* and nothing else, applies no transfer and leaves the fact and the cursor,
\* so that the statement that followed is next and gets the same fact; Replace
\* puts the new statement at the cursor, transfers the new statement and
\* advances by one; No-change transfers the statement, leaves the list and
\* advances by one.
C29_StatementOutcomes ==
    [][LET i == statement_index
           s == statements[i + 1]
       IN  /\ StatementOutcomeDue("Remove")
                 => /\ statements' = SubSeq(statements, 1, i)
                                        \o SubSeq(statements, i + 2, Len(statements))
                    /\ fact' = fact
                    /\ statement_index' = i
                    /\ StepTransfers = <<>>
           /\ StatementOutcomeDue("Statement")
                 => LET ns == StmtRewrite.change.stmt
                    IN  /\ Len(statements') = Len(statements)
                        /\ \A k \in 1..Len(statements) :
                              statements'[k] = IF k = i + 1 THEN ns ELSE statements[k]
                        /\ fact' = TransferStmt(ns, fact)
                        /\ statement_index' = i + 1
                        /\ StepTransfers = <<[op |-> "transfer", node |-> ns,
                                              fact |-> fact]>>
           /\ StatementOutcomeDue("None")
                 => /\ statements' = statements
                    /\ fact' = TransferStmt(s, fact)
                    /\ statement_index' = i + 1
                    /\ StepTransfers = <<[op |-> "transfer", node |-> s,
                                          fact |-> fact]>>]_vars

\* C29 witness: y += 1 of bb0 of the looping graph has been removed: x += 1,
\* which followed it, is under the cursor and the fact is what x = 1 left
C29_Witness ==
    /\ pc = "stmts" /\ direction = "Forward" /\ rewrite.stmt = "Remove"
    /\ block = 0 /\ entered = Loop
    /\ statements = <<Stmt("set", "x", 1), Stmt("inc", "x", 0)>>
    /\ statement_index = 1
    /\ fact = TransferStmt(Stmt("set", "x", 1), At(facts, 0))

\* C30: while block b is visited, every block the graph had when the visit
\* began, other than b, keeps its statements and its terminator (the rewriters
\* hand back only blocks they have just pushed as the entry and exit of a
\* subgraph), and no block goes away.
C30_OtherBlocksUnchanged ==
    InVisit =>
        /\ Len(mir) >= Len(entered)
        /\ \A b \in Blocks(entered) \ {block} : At(mir, b) = At(entered, b)

\* C30 witness: the callback of a block other than the start block has ended
\* after a splice: the graph has grown, the block has changed and the blocks
\* that were there before are as they were
C30_Witness ==
    /\ pc = "propagate" /\ block # START_BLOCK
    /\ Len(mir) > Len(entered)
    /\ At(mir, block) # At(entered, block)
    /\ \A b \in Blocks(entered) \ {block} : At(mir, b) = At(entered, b)

-----------------------------------------------------------------------------
(* The worklist and the size of the fact store *)

\* the blocks whose slot a step has changed
Raised == {t \in Blocks(facts') : At(facts', t) # FactOf(facts, t)}

\* C31: the worklist is a set of blocks of the graph: recording the facts of
\* a visit adds exactly the blocks whose slot changed, a block already
\* pending stays pending once and, when every changed block was pending, the
\* queue is as it was.  The fact store never gets shorter, and never gets
\* longer than the graph when the supplied store was not.
C31_QueueAndStoreBounds ==
    [][/\ Len(facts') >= Len(facts)
       /\ Len(fs) <= Len(mir) => Len(facts') <= Len(mir')
       /\ queue' \subseteq Blocks(mir')
       /\ (pc = "propagate" /\ pc' = "loop")
             => /\ queue' = queue \cup Raised
                /\ Raised \subseteq queue => queue' = queue]_vars

\* C31 witness: in the forward run over the diamond, bb3 was pending with the
\* fact of one branch when the other branch raised its slot again: the queue
\* holds bb3 once and the store has one slot per block
C31_Witness ==
    /\ pc = "loop" /\ direction = "Forward" /\ mir = Diamond /\ fs = <<>>
    /\ visited = {0, 1, 2} /\ queue = {3}
    /\ Len(facts) = Len(mir)
    /\ Get(At(facts, 3), "x") = 1 /\ Get(At(facts, 3), "y") = 1

-----------------------------------------------------------------------------
(* The algebra of join *)

\* the value a join leaves in the receiver
Joined(T, a, b) == lattice_join(T, a, b).val

\* C32: for WTop, WBottom, WTop<WBottom> and HashMap over the Level chain,
\* whose join is associative and commutative, the value of a join does not
\* depend on the order or the grouping: with a the receiver before the last
\* join and b its argument, join(a, b) = join(b, a), and for every c,
\* join(join(a, b), c) = join(a, join(b, c)).
C32_JoinAssociativeCommutative ==
    (pc = "join" /\ lattice \in Lattices) =>
        /\ receiver = Joined(lattice, previous, argument)
        /\ receiver = Joined(lattice, argument, previous)
        /\ \A c \in Values(lattice) :
              Joined(lattice, receiver, c)
                 = Joined(lattice, previous, Joined(lattice, argument, c))

\* C32 witness: a map with x has been joined with a map with y and a lower x
C32_Witness ==
    /\ pc = "join" /\ lattice = HashMapType
    /\ previous = ("x" :> 2) /\ argument = ("x" :> 1 @@ "y" :> 1)
    /\ receiver = ("x" :> 2 @@ "y" :> 1) /\ changed

-----------------------------------------------------------------------------
(* The fact a splice leaves *)

\* the statement loop of the forward visit has ended
StatementLoopEnded ==
    pc = "stmts" /\ direction = "Forward" /\ statement_index >= Len(statements)

\* the nodes the visit has applied the transfer function to, in order
TransferredNodes ==
    LET IsTransfer(e) == e.op = "transfer"
        done == SelectSeq(order, IsTransfer)
    IN  [i \in 1..Len(done) |-> done[i].node]

\* C33 as stated: when the statement loop of a forward visit ends after a
\* splice that brought in a non-empty entry block, the statement transfer has
\* been applied once to each statement the block now holds, in order, and the
\* fact handed to the terminator is the fold of the statement transfer over
\* those statements from the block's input fact.
C33_TransferOncePerStatement ==
    (StatementLoopEnded /\ Len(mir) > Len(entered) /\ rewrite.stmt # "GraphEmpty")
        => /\ TransferredNodes = statements
           /\ fact = TransferStmts(statements, At(facts, block))

\* C34 as stated: when the terminator rewrite of a forward visit returns a
\* splice whose entry block holds statements, the facts the callback returns
\* are the terminator transfer of the adopted terminator applied to the
\* pre-terminator fact passed through the statement transfer of each of the
\* copied-in statements in order.
C34_SplicedStatementsTransferred ==
    [][(TerminatorSpliceDue /\ direction = "Forward" /\ pc' = "propagate"
        /\ At(TermRewrite.mir, TermRewrite.change.entry).statements # <<>>)
          => new_facts' =
                TransferTerm(transfer, At(mir', block).terminator,
                             TransferStmts(At(TermRewrite.mir,
                                              TermRewrite.change.entry).statements,
                                           PreTerminatorFact))]_vars

-----------------------------------------------------------------------------
(* The backward statement-level splice *)

\* the next step of a backward run is a statement-level splice whose exit
\* block holds no terminator and is not the entry block
BackwardSpliceDue ==
    /\ pc = "stmts" /\ direction = "Backward"
    /\ statement_index < Len(statements)
    /\ StmtRewrite.change.kind = "Graph"
    /\ StmtRewrite.change.entry # StmtRewrite.change.exit
    /\ is_none(At(StmtRewrite.mir, StmtRewrite.change.exit).terminator)

\* C35 as stated: a backward statement-level splice on the statement at
\* original position i of B gives the forward shape: X receives the
\* statements that followed position i, in their order, and B's terminator;
\* B keeps the statements that preceded position i, in their order, followed
\* by E's statements in E's order, and has E's terminator.
C35_BackwardSpliceShape ==
    [][BackwardSpliceDue =>
        LET m == StmtRewrite.mir
            E == StmtRewrite.change.entry
            X == StmtRewrite.change.exit
            original == Backwards(statements)
            n == Len(statements)
            i == n - 1 - statement_index
        IN  /\ At(mir', X).statements
                  = At(m, X).statements \o SubSeq(original, i + 2, n)
            /\ At(mir', X).terminator = At(m, block).terminator
            /\ Backwards(statements')
                  = SubSeq(original, 1, i) \o At(m, E).statements
            /\ At(mir', block).terminator = At(m, E).terminator]_vars

-----------------------------------------------------------------------------
(* The worklist invariant *)

\* C36: at the start of every iteration of the loop of a forward run without
\* rewrites, every block that has been processed and is not pending has, for
\* each successor, the fact its last visit returned for that edge included in
\* the successor's slot: joining it again would report no change.
C36_WorklistInvariant ==
    (pc = "loop" /\ ForwardNoRewrite) =>
        \A b \in visited \ queue :
            LET succs == successors(At(mir, b).terminator)
            IN  /\ b \in DOMAIN produced
                /\ Len(produced[b]) = Len(succs)
                /\ \A i \in 1..Len(succs) :
                       ~Join(FactOf(facts, succs[i]), produced[b][i]).changed

\* C36 witness: the forward run over the looping graph is at the start of an
\* iteration with nothing pending, bb1 having been processed again after it
\* raised its own slot
C36_Witness ==
    /\ pc = "loop" /\ ForwardNoRewrite /\ mir = Loop /\ fs = <<>>
    /\ visited = {0, 1, 2} /\ queue = {}
    /\ Get(At(facts, 1), "x") = MaxLevel
    /\ produced[1] = TransferTerm(transfer, At(mir, 1).terminator,
                                  TransferStmts(At(mir, 1).statements, At(facts, 1)))

-----------------------------------------------------------------------------
(* The slots of the fact store only rise *)

\* a is below or equal to b in the order of the facts
Leq(a, b) == DOMAIN a \subseteq DOMAIN b /\ \A k \in DOMAIN a : a[k] <= b[k]

\* C37: no step lowers a slot of the fact store: every slot of the store is
\* at or above what it held before the step and at or above the value the
\* driver supplied for it, and a slot that did not exist is created no lower
\* than bottom.  Step by step, every slot is at or above the value it held
\* in every earlier state.
C37_SlotsNonDecreasing ==
    [][/\ \A b \in Blocks(facts) :
             b < Len(facts') /\ Leq(At(facts, b), At(facts', b))
       /\ \A b \in Blocks(fs) : Leq(At(fs, b), FactOf(facts', b))
       /\ \A b \in Blocks(facts') : Leq(Bottom, At(facts', b))
       /\ facts' # facts
             => \/ (pc = "loop" /\ pc' = "callback"
                       /\ facts' = facts \o [i \in 1..(Len(facts') - Len(facts))
                                                |-> Bottom])
                \/ (pc = "propagate" /\ pc' = "loop")]_vars

\* C37 witness: the forward run over the diamond, given facts for bb0 and
\* bb1, has processed bb0: bb1's slot, already above the first edge's fact,
\* is as supplied, bb2's slot has risen from bottom
C37_Witness ==
    /\ pc = "loop" /\ direction = "Forward" /\ mir = Diamond /\ Len(fs) = 2
    /\ visited = {0} /\ queue = {2}
    /\ At(facts, 0) = At(fs, 0)
    /\ At(facts, 1) = At(fs, 1)
    /\ At(facts, 2) # Bottom /\ Leq(At(fs, 0), At(facts, 2))

-----------------------------------------------------------------------------
(* The returned store does not depend on the order of the pops *)

\* the forward loop without rewrites, run on [facts, queue] with every pop
\* taking the lowest pending block
RECURSIVE LowestFirst(_, _)
LowestFirst(m, st) ==
    IF st.queue = {} THEN st.facts
    ELSE LET b == CHOOSE x \in st.queue : \A y \in st.queue : x <= y
             v == index_mut(st.facts, b)
             t == At(m, b).terminator
             nf == TransferTerm("PerEdge", t,
                                TransferStmts(At(m, b).statements, At(v, b)))
         IN  LowestFirst(m, JoinForward(v, st.queue \ {b}, nf, successors(t)))

\* C38: for a given graph and supplied store, with the monotone transfer and
\* no rewrites, every forward run returns the same store whatever block each
\* pop picked: the one the run that always pops the lowest pending block
\* returns.
C38_ResultIndependentOfPopOrder ==
    (pc = "done" /\ ForwardNoRewrite)
        => facts = LowestFirst(mir, [facts |-> fs, queue |-> ForwardSeed(mir)])

\* C38 witness: a forward run over the diamond, where bb1 and bb2 are pending
\* together and may be popped either way round, has returned
C38_Witness ==
    /\ pc = "done" /\ ForwardNoRewrite /\ mir = Diamond /\ fs = <<("x" :> 1)>>
    /\ visited = {0, 1, 2, 3}
    /\ facts = LowestFirst(mir, [facts |-> fs, queue |-> {START_BLOCK}])
    /\ Get(At(facts, 3), "y") = 1

-----------------------------------------------------------------------------
(* RewriteAndThen on its own: three rewriters combined in either grouping   *)
(* and asked about a node                                                   *)

\* the statements and terminators the combined rewriters are asked about
AndThenStatements ==
    {Stmt("inc", "y", 0), Stmt("set", "y", 1), Stmt("inc", "x", 0)}

AndThenTerminators == {If("c", 1, 2), Goto(1), Call(1), Return}

\* the facts they are asked with
AndThenFacts == {Bottom, ("y" :> 1)}

\* (r1.and_then(r2)).and_then(r3), the driver's rewriter
AndThenInit ==
    /\ \E r1 \in Seconds, r2 \in Seconds, r3 \in Seconds :
           rewrite = and_then(and_then(r1, r2), r3)
    /\ fact \in AndThenFacts
    /\ mir = Loop /\ entered = Loop
    /\ pc = "and_then"
    /\ outcome = <<>> /\ order = <<>> /\ produced = <<>>
    /\ facts = <<>> /\ fs = <<>> /\ queue = {} /\ visited = {}
    /\ direction = "Forward" /\ transfer = "PerEdge" /\ debug_assertions = FALSE
    /\ block = START_BLOCK /\ statements = <<>> /\ statement_index = 0
    /\ new_facts = <<>> /\ panic = "none"
    /\ lattice = [ctor |-> "HashMap"]
    /\ receiver = Bottom /\ argument = Bottom /\ previous = Bottom
    /\ changed = FALSE

\* r1.and_then(r2.and_then(r3)) of the same three rewriters
Regrouped ==
    and_then(rewrite.first.first, and_then(rewrite.first.second, rewrite.second))

AndThenKept ==
    <<mir, facts, queue, direction, pc, block, fact, statements, statement_index,
      new_facts, rewrite, transfer, debug_assertions, fs, panic, visited, entered,
      produced, LatticeVars>>

\* both groupings' stmt(s, &fact, mir)
AndThenStmt ==
    /\ pc = "and_then"
    /\ \E s \in AndThenStatements :
           /\ outcome' = [left |-> Outcome(rewrite_stmt(rewrite, s, fact, mir)),
                          right |-> Outcome(rewrite_stmt(Regrouped, s, fact, mir))]
           /\ order' = <<Rewrote(s, fact)>>
    /\ UNCHANGED AndThenKept

\* both groupings' term(t, &fact, mir)
AndThenTerm ==
    /\ pc = "and_then"
    /\ \E t \in AndThenTerminators :
           /\ outcome' = [left |-> Outcome(rewrite_term(rewrite, t, fact, mir)),
                          right |-> Outcome(rewrite_term(Regrouped, t, fact, mir))]
           /\ order' = <<Rewrote(t, fact)>>
    /\ UNCHANGED AndThenKept

AndThenNext == AndThenStmt \/ AndThenTerm

AndThenSpec == AndThenInit /\ [][AndThenNext]_vars

\* C39: for all rewriters R1, R2, R3, every statement or terminator and every
\* fact, (R1.and_then(R2)).and_then(R3) and R1.and_then(R2.and_then(R3))
\* return the same outcome and leave the same graph, and one ends in
\* unimplemented!() exactly when the other does.
C39_AndThenAssociative ==
    (pc = "and_then" /\ outcome # <<>>)
        => /\ outcome.left = outcome.right
           /\ (outcome.left.change.kind = "unimplemented")
                 <=> (outcome.right.change.kind = "unimplemented")

\* C39 witness: R1 folds y += 1 into an assignment, R2 leaves it and R3
\* removes assignments: both groupings remove the statement
C39_Witness ==
    /\ pc = "and_then" /\ outcome # <<>>
    /\ rewrite.first.first.stmt = "Statement" /\ rewrite.first.second = Identity
    /\ rewrite.second.stmt = "RemoveSet"
    /\ order = <<Rewrote(Stmt("inc", "y", 0), Bottom)>>
    /\ outcome.left.change = [kind |-> "Remove"]
    /\ outcome.right.change = [kind |-> "Remove"]

-----------------------------------------------------------------------------
(* The change flag of join *)

\* C40: for WTop, WBottom, WTop<WBottom> and HashMap over the Level chain,
\* whose flag is truthful, join returns true exactly when the receiver's
\* value after the join differs from its value before: a join that returned
\* false left the receiver as it was, and a value joined with itself, the
\* receiver included, returns false.
C40_ChangeFlagTruthful ==
    (pc = "join" /\ lattice \in Lattices) =>
        /\ changed <=> receiver # previous
        /\ ~changed => receiver = previous
        /\ argument = previous => ~changed
        /\ LET j == lattice_join(lattice, receiver, receiver)
           IN  ~j.changed /\ j.val = receiver

\* C40 witness: a map has been joined with a map equal to it, is as it was,
\* and the join returned false
C40_Witness ==
    /\ pc = "join" /\ lattice = HashMapType
    /\ previous = ("x" :> 1 @@ "y" :> MaxLevel) /\ argument = previous
    /\ receiver = previous /\ ~changed

====
